---- MODULE Spec2Model ----
(***************************************************************************)
(* Model of the Suno mirror tools: the retrying feed fetcher, the page    *)
(* cache store, the head-drift synchronizer and the full scan of          *)
(* progress_check.py, the planner's cache load of targeted_update.py and  *)
(* the diff engine.                                                        *)
(*                                                                         *)
(* A clip is modelled by an integer: a positive number is a record with   *)
(* that id, NoId is a record whose id is missing or falsy, NonRec is a    *)
(* JSON value that is not an object (it has no .get).                     *)
(***************************************************************************)
EXTENDS Integers, Sequences, FiniteSets, TLC

\* ---------------------------------------------------------------- bounds
\* Stand-in for CACHE_PAGE_SIZE (20 in progress_check.py:16), scaled down so
\* that multi-page rewrites happen with short feeds.
CACHE_PAGE_SIZE == 2
\* Longest live feed of the multi-run specification.
MaxFeed == 4
\* Largest page size of the remote feed.
MaxPageSize == 3
\* Largest --head-sync-pages / --max-pages value tried.
MaxArg == 2
\* Largest --max-retries value tried.
MaxRetriesArg == 2
\* Cap on the requests of one fetch when retries are unlimited.
MaxRequests == 4
\* Longest sequence fed to the pure cache/sync operators.
MaxLen == 3
\* Largest clip id fed to the pure cache/sync operators.
MaxId == 2
\* Largest per-base count fed to the diff engine.
MaxCount == 3

\* Most files one download call leaves behind from attempts whose stream broke.
MaxPartial == 1
\* Caps on the failure counter and on the idle counter, which the code leaves unbounded.
MaxFailCount == 3
MaxIdleCount == 3

\* Highest version of a base that exists before a download starts.
MaxVersion == 2
MaxSleep == 2
MaxBackoff == 5
MaxJitter == 1

NoId == 0
NonRec == 0 - 1

MaxPageIdx == MaxFeed + 1
PageIdx == 0..MaxPageIdx

VARIABLES
    feed,        \* the live feed, newest first
    pageSize,    \* page size of the remote feed
    cache,       \* cache directory: page index -> content of page_NNNN.json
    pc,          \* position of the running tool
    args,        \* command-line arguments of the current progress_check run
    page,        \* main(): page
    clips,       \* main(): clips
    complete,    \* main(): complete
    stopReason,  \* main(): stop_reason
    syncStatus,  \* main(): cache_head_sync
    shifted,     \* main(): cache_head_shifted_clips
    unique,      \* main(): deduped_clips of the last summary
    outcome,     \* how the last run ended: "exit0", "exit1", "exit2" or "traceback"
    items,       \* argument of rewrite_cache_clips in the cache-store specification
    loaded,      \* result of the last cache reader
    fetcher,     \* which fetcher runs: "live" (fetch_live_page) or "feed" (fetch_feed_page)
    maxRetries,  \* its max_retries
    fPage,       \* its page argument
    attempt,     \* its attempt counter
    nRequests,   \* requests issued so far for this page
    nSleeps,     \* backoff sleeps taken so far
    fState,      \* "running" or how the fetch ended
    lastResp,    \* the response of the most recent request
    expected,    \* diff engine: expected counts per base
    actual,      \* diff engine: local counts per base
    diff,        \* diff engine: the computed missing/extra maps
    catalog,     \* recovery loop: the clips the cache holds, id -> base and created_at
    hinted_bases,          \* recovery loop: bases named in progress_missing.txt
    fetchComplete,         \* recovery loop: complete_api_fetch of progress_summary.json
    largs,                 \* recovery loop: command-line arguments of targeted_update
    failed_attempts,       \* recovery loop: clip id -> failure count
    savedState,            \* recovery loop: failed_attempts as last written to the state file
    plan,                  \* recovery loop: the plan of the current cycle
    queue,                 \* recovery loop: the part of the plan not yet executed
    downloaded_this_cycle, \* recovery loop: successes of the current cycle
    idle_cycles,           \* recovery loop: idle counter
    lastResult,            \* recovery loop: the clip last attempted and download_clip's result
    mp3,         \* download: version n -> state of "<base>.mp3" (n = 1) or "<base> vn.mp3"
    part,        \* download: version n -> state of the same name with ".part" appended
    dl,          \* download: the running download call
    out_dir,     \* output directory: the set of names "<stem>.mp3", each by its stem
    requested,   \* output directory: the base name a path is reserved for
    skipped_as_existing, \* first pass: the songs assumed present by title count
    sleepArgs,   \* backoff: the base sleep, --max-backoff and --jitter of the run
    slept        \* backoff: the backoff and the total of the last sleep

envVars == <<feed, pageSize, cache>>
runVars == <<pc, args, page, clips, complete, stopReason, syncStatus, shifted, unique, outcome>>
storeVars == <<items, loaded>>
fetchVars == <<fetcher, maxRetries, fPage, attempt, nRequests, nSleeps, fState, lastResp>>
diffVars == <<expected, actual, diff>>
loopVars == <<catalog, hinted_bases, fetchComplete, largs, failed_attempts, savedState, plan,
              queue, downloaded_this_cycle, idle_cycles, lastResult>>
fileVars == <<mp3, part, dl>>
nameVars == <<out_dir, requested>>
passVars == <<skipped_as_existing>>
sleepVars == <<sleepArgs, slept>>
vars == <<feed, pageSize, cache, pc, args, page, clips, complete, stopReason, syncStatus,
          shifted, unique, outcome, items, loaded, fetcher, maxRetries, fPage, attempt,
          nRequests, nSleeps, fState, lastResp, expected, actual, diff,
          catalog, hinted_bases, fetchComplete, largs, failed_attempts, savedState, plan,
          queue, downloaded_this_cycle, idle_cycles, lastResult, mp3, part, dl, out_dir, requested,
          skipped_as_existing, sleepArgs, slept>>

\* ------------------------------------------------------------ sequences
Min(a, b) == IF a < b THEN a ELSE b
Max(a, b) == IF a > b THEN a ELSE b

Range(s) == {s[i] : i \in 1..Len(s)}

SeqsUpTo(S, n) == UNION {[1..k -> S] : k \in 0..n}

\* s[i:j] of Python, 0-based and clipped to the sequence.
Slice(s, i, j) == SubSeq(s, i + 1, Min(j, Len(s)))

HasNonRec(s) == \E i \in 1..Len(s) : s[i] = NonRec

\* ------------------------------------------------------ page file contents
\* kind "none"     no file at that index
\*      "bad"      bytes that json.loads rejects
\*      "scalar"   valid JSON that is neither a list nor an object
\*      "list"     a bare JSON array
\*      "obj"      an object; clips is its "clips" list ([] when the key is absent)
\*      "objfalsy" an object whose "clips" is a falsy non-list (null, 0, "")
\*      "objnum"   an object whose "clips" is a truthy non-iterable (5, true)
\*      "objiter"  an object whose "clips" is a non-empty string or object
NoFile == [kind |-> "none", clips |-> <<>>]
Bad == [kind |-> "bad", clips |-> <<>>]
Scalar == [kind |-> "scalar", clips |-> <<>>]
ObjFalsy == [kind |-> "objfalsy", clips |-> <<>>]
ObjNum == [kind |-> "objnum", clips |-> <<>>]
ObjIter == [kind |-> "objiter", clips |-> <<NonRec>>]
Data(batch) == [kind |-> "obj", clips |-> batch]
BareList(batch) == [kind |-> "list", clips |-> batch]

EmptyDir == [k \in PageIdx |-> NoFile]

\* cache_dir.glob("page_*.json")
PageFiles(dir) == {k \in PageIdx : dir[k].kind # "none"}

\* ------------------------------------------------------------- clip ids
\* progress_check.clip_id: the id, or None (NoId) when missing or falsy.
clip_id(clip) == IF clip > 0 THEN clip ELSE NoId

RECURSIVE DedupeFrom(_, _)
DedupeFrom(s, seen) ==
    IF s = <<>> THEN <<>>
    ELSE LET cid == clip_id(Head(s)) IN
         IF cid # NoId /\ cid \in seen THEN DedupeFrom(Tail(s), seen)
         ELSE <<Head(s)>> \o DedupeFrom(Tail(s), IF cid # NoId THEN seen \cup {cid} ELSE seen)

dedupe_clips_by_id_last(clips_) ==
    LET Rev(t) == [i \in 1..Len(t) |-> t[Len(t) + 1 - i]]
    IN Rev(DedupeFrom(Rev(clips_), {}))

\* progress_check.dedupe_clips_by_id: first occurrence of every id, id-less
\* records all kept.
dedupe_clips_by_id(clips_) == DedupeFrom(clips_, {})

\* Suno_downloader.dedupe_clips_by_id: first occurrence of every id, id-less
\* records dropped.
HasId(clip) == clip_id(clip) # NoId
downloader_dedupe_clips_by_id(clips_) == DedupeFrom(SelectSeq(clips_, HasId), {})

\* -------------------------------------------------------- page cache store
Raised == [raised |-> TRUE, clips |-> <<>>]
Returned(s) == [raised |-> FALSE, clips |-> s]

\* The loop of load_cached_clips over sorted(glob): the raw concatenation.
RECURSIVE LoadPages(_, _, _)
LoadPages(dir, k, acc) ==
    IF k > MaxPageIdx THEN Returned(acc)
    ELSE LET f == dir[k] IN
         CASE f.kind = "none" -> LoadPages(dir, k + 1, acc)
           [] f.kind = "bad" -> LoadPages(dir, k + 1, acc)
           [] f.kind = "scalar" -> Raised
           [] f.kind \in {"objfalsy", "objnum", "objiter"} -> LoadPages(dir, k + 1, acc)
           [] OTHER -> IF f.clips = <<>> THEN Returned(acc)
                       ELSE LoadPages(dir, k + 1, acc \o f.clips)

load_cached_clips(dir) ==
    LET r == LoadPages(dir, 0, <<>>) IN
    IF r.raised \/ HasNonRec(r.clips) THEN Raised
    ELSE Returned(dedupe_clips_by_id(r.clips))

NumChunks(n) == (n + CACHE_PAGE_SIZE - 1) \div CACHE_PAGE_SIZE

rewrite_cache_clips_keep_old(dir, clips_) ==
    [k \in PageIdx |->
        IF k < NumChunks(Len(clips_))
        THEN Data(Slice(clips_, k * CACHE_PAGE_SIZE, (k + 1) * CACHE_PAGE_SIZE))
        ELSE IF k = NumChunks(Len(clips_)) THEN Data(<<>>)
        ELSE dir[k]]

\* Every page file is unlinked, then the clips are written in batches of
\* CACHE_PAGE_SIZE followed by one empty page.
rewrite_cache_clips(dir, clips_) ==
    [k \in PageIdx |->
        IF k < NumChunks(Len(clips_))
        THEN Data(Slice(clips_, k * CACHE_PAGE_SIZE, (k + 1) * CACHE_PAGE_SIZE))
        ELSE IF k = NumChunks(Len(clips_)) THEN Data(<<>>)
        ELSE NoFile]

\* targeted_update.load_cache_clips: the clips counted as expected, in the
\* order they are met.  No page ends the loop.
RECURSIVE PlannerPages(_, _, _)
PlannerPages(dir, k, acc) ==
    IF k > MaxPageIdx THEN Returned(acc)
    ELSE LET f == dir[k] IN
         CASE f.kind \in {"none", "bad"} -> PlannerPages(dir, k + 1, acc)
           [] f.kind = "scalar" -> Raised
           [] f.kind \in {"objfalsy", "objnum", "objiter"} -> PlannerPages(dir, k + 1, acc)
           [] OTHER -> IF HasNonRec(f.clips) THEN Raised
                       ELSE PlannerPages(dir, k + 1, acc \o f.clips)

load_cache_clips(dir) ==
    LET r == PlannerPages(dir, 0, <<>>) IN
    IF r.raised THEN Raised
    ELSE Returned(dedupe_clips_by_id(SelectSeq(r.clips, LAMBDA c : clip_id(c) # NoId)))

\* ------------------------------------------------- retrying HTTP fetcher
\* status 0 stands for a transport error (no response); body is what a
\* 2xx response carries: JSON list/object, malformed JSON, or a JSON scalar.
NoResp == [status |-> 0 - 1, body |-> "none"]
Responses ==
    {[status |-> s, body |-> "json"] : s \in {0, 401, 403, 404, 429, 500, 503}}
    \cup {[status |-> 200, body |-> b] : b \in {"json", "badjson", "scalar"}}

Classify_auth_retried(resp) ==
    CASE resp.status = 0 -> "retry"
      [] resp.status = 401 -> "auth"
      [] resp.status = 429 \/ (500 <= resp.status /\ resp.status < 600) \/ resp.status = 403 -> "retry"
      [] 400 <= resp.status /\ resp.status < 500 -> "nonretry"
      [] resp.body = "badjson" -> "retry"
      [] resp.body = "scalar" -> "crash"
      [] OTHER -> "return"

\* The body of the try block of fetch_live_page / fetch_feed_page, in the
\* order of its tests: which way one response leaves the block.
Classify(resp) ==
    CASE resp.status = 0 -> "retry"
      [] resp.status \in {401, 403} -> "auth"
      [] resp.status = 429 \/ (500 <= resp.status /\ resp.status < 600) -> "retry"
      [] 400 <= resp.status /\ resp.status < 500 -> "nonretry"
      [] resp.body = "badjson" -> "retry"
      [] resp.body = "scalar" -> "crash"
      [] OTHER -> "return"

BudgetExceeded_ge(max_retries, attempt_) == max_retries # 0 /\ attempt_ >= max_retries

\* "if max_retries and attempt > max_retries" of the except clause.
BudgetExceeded(max_retries, attempt_) == max_retries # 0 /\ attempt_ > max_retries

\* One pass of the "while True" loop of the fetcher: one request, its
\* classification and, on a retryable failure, the budget test and the sleep.
\* fetch_live_page counts attempt in the except clause, fetch_feed_page at
\* the top of the loop.
FetchAttempt(resp) ==
    /\ fState = "running"
    /\ nRequests < MaxRequests \/ maxRetries # 0
    /\ nRequests' = nRequests + 1
    /\ lastResp' = resp
    /\ LET kind == Classify(resp)
           att == IF fetcher = "feed" \/ kind = "retry" THEN attempt + 1 ELSE attempt
       IN /\ attempt' = att
          /\ fState' = CASE kind = "auth" -> "AuthFailure"
                         [] kind = "nonretry" -> "NonRetryableHTTP"
                         [] kind = "crash" -> "AttributeError"
                         [] kind = "return" -> "returned"
                         [] OTHER -> IF BudgetExceeded(maxRetries, att)
                                     THEN "RetryExceeded" ELSE "running"
          /\ nSleeps' = IF kind = "retry" /\ ~BudgetExceeded(maxRetries, att)
                        THEN nSleeps + 1 ELSE nSleeps
    /\ UNCHANGED <<fetcher, maxRetries, fPage>>
    /\ UNCHANGED <<envVars, runVars, storeVars, diffVars, loopVars, fileVars, nameVars, passVars, sleepVars>>

\* ------------------------------------------------ values of unused parts
NoArgs == [refresh |-> FALSE, head_sync_pages |-> 0, max_pages |-> 0]
NoStop == [kind |-> "end_of_feed", page |-> 0]
NoDiff == [tool |-> "none", missing |-> <<>>, extra |-> <<>>]

EnvIdle == feed = <<>> /\ pageSize = 1 /\ cache = EmptyDir
RunIdle ==
    /\ pc = "off" /\ args = NoArgs /\ page = 0 /\ clips = <<>> /\ complete = TRUE
    /\ stopReason = NoStop /\ syncStatus = "skipped" /\ shifted = 0
    /\ unique = <<>> /\ outcome = "none"
StoreIdle == items = <<>> /\ loaded = Returned(<<>>)
FetchIdle ==
    /\ fetcher = "none" /\ maxRetries = 0 /\ fPage = 0 /\ attempt = 0
    /\ nRequests = 0 /\ nSleeps = 0 /\ fState = "off" /\ lastResp = NoResp
DiffIdle == expected = <<>> /\ actual = <<>> /\ diff = NoDiff
NoLoopArgs ==
    [once |-> FALSE, stop_when_clean |-> FALSE, dry_run |-> FALSE,
     max_idle_cycles |-> 0, max_downloads |-> 0, max_retries |-> 0]
NoResult == [clip |-> 0, error |-> "none", before |-> 0]
LoopIdle ==
    /\ catalog = <<>> /\ hinted_bases = {} /\ fetchComplete = FALSE /\ largs = NoLoopArgs
    /\ failed_attempts = <<>> /\ savedState = <<>> /\ plan = <<>> /\ queue = <<>>
    /\ downloaded_this_cycle = 0 /\ idle_cycles = 0 /\ lastResult = NoResult
NoDownload == [tool |-> "none", max_retries |-> 0, attempt |-> 0, state |-> "off", path |-> 0]
FileIdle == mp3 = <<>> /\ part = <<>> /\ dl = NoDownload
NoName == [root |-> "none", versions |-> <<>>]
NameIdle == out_dir = {} /\ requested = NoName
PassIdle == skipped_as_existing = 0
NoSleepArgs == [sleep |-> 0, max_backoff |-> 0, jitter |-> 0]
NoSleep == [backoff |-> 0, total |-> 0]
SleepIdle == sleepArgs = NoSleepArgs /\ slept = NoSleep

\* ------------------------------------------- specification of the fetcher
InitFetch ==
    /\ fetcher \in {"live", "feed"}
    /\ maxRetries \in 0..MaxRetriesArg
    /\ fPage \in 0..1
    /\ attempt = 0 /\ nRequests = 0 /\ nSleeps = 0
    /\ fState = "running" /\ lastResp = NoResp
    /\ EnvIdle /\ RunIdle /\ StoreIdle /\ DiffIdle /\ LoopIdle /\ FileIdle /\ NameIdle /\ PassIdle /\ SleepIdle

NextFetch == \E resp \in Responses : FetchAttempt(resp)

SpecFetch == InitFetch /\ [][NextFetch]_vars

IsAuth(resp) == resp.status \in {401, 403}
IsRetryable(resp) ==
    resp.status \in {0, 429, 500, 503} \/ (resp.status = 200 /\ resp.body = "badjson")

\* C1: a 401/403 response makes the fetcher raise AuthFailure on that very
\* response, with no backoff sleep after it, whatever max_retries and the
\* page are; after AuthFailure no further request is issued.
C1_AuthNeverRetried ==
    [][/\ (nRequests' = nRequests + 1 /\ IsAuth(lastResp'))
            => (fState' = "AuthFailure" /\ nSleeps' = nSleeps)
       /\ fState = "AuthFailure" => (nRequests' = nRequests /\ nSleeps' = nSleeps)]_vars

C1_Witness ==
    /\ fState = "AuthFailure" /\ IsAuth(lastResp)
    /\ maxRetries = 0 /\ nRequests >= 2 /\ nSleeps = nRequests - 1

\* C2 as stated: with max_retries = N > 0 the fetcher makes at most N request
\* attempts for a page before raising RetryExceeded.
C2_Original == fState = "RetryExceeded" => nRequests <= maxRetries

\* C2 as amended: with max_retries = N > 0 and only retryable responses the
\* fetcher retries the same page N times, so RetryExceeded is raised on
\* request N + 1 exactly (after N sleeps); with max_retries = 0 it is never
\* raised and a retryable response leaves the fetcher retrying.
C2_RetryBudget ==
    [][/\ fPage' = fPage
       /\ fState' = "RetryExceeded"
            => (maxRetries > 0 /\ nRequests' = maxRetries + 1 /\ nSleeps' = maxRetries
                /\ IsRetryable(lastResp'))
       /\ (nRequests' = nRequests + 1 /\ IsRetryable(lastResp'))
            => IF maxRetries = 0 \/ nRequests' <= maxRetries
               THEN fState' = "running" /\ nSleeps' = nSleeps + 1
               ELSE fState' = "RetryExceeded"]_vars

C2_Witness == fState = "RetryExceeded" /\ maxRetries = 2 /\ nRequests = 3

C2_WitnessUnlimited ==
    maxRetries = 0 /\ fState = "running" /\ nRequests = MaxRequests /\ nSleeps = MaxRequests

\* ------------------------------------------------- head-drift synchronizer
FetchResults == {"ok", "AuthFailure", "NonRetryableHTTP", "RetryExceeded"}

\* The batch of a successful fetch_live_page(page): the slice of the live
\* feed that the remote serves as that page.
LivePage(live, P, p) == Slice(live, p * P, (p + 1) * P)

ScanBatch_never_anchor(batch, cached_ids) == [anchor |-> FALSE, prefix |-> batch]

\* The inner "for clip in batch" loop: the clips before the first one whose
\* id is cached, and whether there is such a clip.
RECURSIVE ScanBatch(_, _)
ScanBatch(batch, cached_ids) ==
    IF batch = <<>> THEN [anchor |-> FALSE, prefix |-> <<>>]
    ELSE LET cid == clip_id(Head(batch)) IN
         IF cid # NoId /\ cid \in cached_ids THEN [anchor |-> TRUE, prefix |-> <<>>]
         ELSE LET r == ScanBatch(Tail(batch), cached_ids) IN
              [anchor |-> r.anchor, prefix |-> <<Head(batch)>> \o r.prefix]

\* The "for page in range(0, args.head_sync_pages)" loop.
RECURSIVE ProbePages(_, _, _, _, _, _)
ProbePages(live, P, head_sync_pages, p, cached_ids, live_prefix) ==
    IF p >= head_sync_pages THEN [kind |-> "exhausted", prefix |-> live_prefix]
    ELSE LET batch == LivePage(live, P, p) IN
         IF batch = <<>> THEN [kind |-> "empty", prefix |-> live_prefix]
         ELSE LET r == ScanBatch(batch, cached_ids) IN
              IF r.anchor THEN [kind |-> "anchor", prefix |-> live_prefix \o r.prefix]
              ELSE ProbePages(live, P, head_sync_pages, p + 1, cached_ids,
                              live_prefix \o r.prefix)

SyncResult(status, n, dir) == [status |-> status, shifted_clips |-> n, dir |-> dir]

MergeHead_no_dedupe(live_prefix, cached_clips) == live_prefix \o cached_clips

\* merged = dedupe_clips_by_id(live_prefix + cached_clips)
MergeHead(live_prefix, cached_clips) == dedupe_clips_by_id(live_prefix \o cached_clips)

AnchorResult_always_rewrite(dir, live_prefix, cached_clips) ==
    LET merged == MergeHead(live_prefix, cached_clips)
        shifted_clips == Max(0, Len(merged) - Len(cached_clips))
    IN SyncResult(IF shifted_clips > 0 THEN "shifted" ELSE "up_to_date", shifted_clips,
                  rewrite_cache_clips(dir, merged))

\* Lines 184-189: the merge, the shift count and the conditional rewrite.
AnchorResult(dir, live_prefix, cached_clips) ==
    LET merged == MergeHead(live_prefix, cached_clips)
        shifted_clips == Max(0, Len(merged) - Len(cached_clips))
    IN IF shifted_clips > 0
       THEN SyncResult("shifted", shifted_clips, rewrite_cache_clips(dir, merged))
       ELSE SyncResult("up_to_date", 0, dir)

\* sync_cache_head.  fetched is how the probe's fetch_live_page calls end:
\* "ok", or "raised" when one of them raises AuthFailure, NonRetryableHTTP or
\* RetryExceeded (nothing is written before a fetch, so which call raises
\* which of them makes no difference to the directory).
sync_cache_head(dir, live, P, head_sync_pages, fetched) ==
    LET cached == load_cached_clips(dir) IN
    IF cached.raised THEN SyncResult("AttributeError", 0, dir)
    ELSE IF cached.clips = <<>> THEN SyncResult("empty_cache", 0, dir)
    ELSE IF head_sync_pages > 0 /\ fetched # "ok" THEN SyncResult("raised", 0, dir)
    ELSE LET cached_ids == {clip_id(c) : c \in Range(cached.clips)} \ {NoId}
             probe == ProbePages(live, P, head_sync_pages, 0, cached_ids, <<>>)
         IN CASE probe.kind = "empty" ->
                    SyncResult("feed_empty", Len(cached.clips), rewrite_cache_clips(dir, <<>>))
              [] probe.kind = "exhausted" -> SyncResult("no_overlap_refresh", 0, dir)
              [] OTHER -> AnchorResult(dir, probe.prefix, cached.clips)

SyncReturned == {"empty_cache", "feed_empty", "no_overlap_refresh", "shifted", "up_to_date"}

\* ------------------------------------ specification of the synchronizer
\* One call of sync_cache_head on a cache holding any short sequence of
\* distinct clips (with or without its end page) against any short live
\* feed, repeats and id-less records included.
Injective(s) == \A i, j \in 1..Len(s) : i # j => s[i] # s[j]

SyncDirs ==
    LET full(s) == rewrite_cache_clips(EmptyDir, s)
    IN {full(s) : s \in {t \in SeqsUpTo(0..MaxId, MaxLen - 1) : Injective(t)}}
       \cup {[full(s) EXCEPT ![NumChunks(Len(s))] = NoFile] :
                s \in {t \in SeqsUpTo(1..MaxId, MaxLen - 1) : Injective(t)}}

\* The example of the head-drift test: cached [C2,C1,C0] = <<3, 2, 1>> and
\* live [L1,L0,C2,C1,C0] = <<5, 4, 3, 2, 1>>.
ExampleCached == <<3, 2, 1>>
ExampleLive == <<5, 4, 3, 2, 1>>

InitSync ==
    /\ \/ feed \in SeqsUpTo(0..MaxId, MaxLen) /\ cache \in SyncDirs
       \/ feed = ExampleLive /\ cache = rewrite_cache_clips(EmptyDir, ExampleCached)
    /\ pageSize \in 1..MaxPageSize
    /\ pc = "sync"
    /\ args \in {[refresh |-> FALSE, head_sync_pages |-> h, max_pages |-> 0] : h \in 1..MaxArg}
    /\ page = 0 /\ clips = <<>> /\ complete = TRUE /\ stopReason = NoStop
    /\ syncStatus = "skipped" /\ shifted = 0 /\ unique = <<>> /\ outcome = "none"
    /\ StoreIdle /\ FetchIdle /\ DiffIdle /\ LoopIdle /\ FileIdle /\ NameIdle /\ PassIdle /\ SleepIdle

SyncOnly ==
    /\ pc = "sync"
    /\ \E fetched \in {"ok", "raised"} :
          LET r == sync_cache_head(cache, feed, pageSize, args.head_sync_pages, fetched)
          IN /\ cache' = r.dir
             /\ syncStatus' = r.status
             /\ shifted' = r.shifted_clips
    /\ pc' = "synced"
    /\ UNCHANGED <<feed, pageSize, args, page, clips, complete, stopReason, unique, outcome>>
    /\ UNCHANGED <<storeVars, fetchVars, diffVars, loopVars, fileVars, nameVars, passVars, sleepVars>>

NextSync == SyncOnly

SpecSync == InitSync /\ [][NextSync]_vars

\* What the claims say of one synchronizer call, stated from its inputs:
\* the probe window, the anchor and the live items before it.
IdsOf(s) == {clip_id(c) : c \in Range(s)} \ {NoId}
ProbeWindow(live, P, head_sync_pages) == SubSeq(live, 1, Min(Len(live), head_sync_pages * P))
AnchorPositions(window, cached_clips) ==
    {i \in 1..Len(window) :
        clip_id(window[i]) # NoId /\ clip_id(window[i]) \in IdsOf(cached_clips)}
FirstOf(S) == CHOOSE i \in S : \A j \in S : i <= j
\* The clips of s that have no id or whose id occurs at no earlier position.
RECURSIVE FirstOccurrencesFrom(_, _)
FirstOccurrencesFrom(s, i) ==
    IF i > Len(s) THEN <<>>
    ELSE (IF clip_id(s[i]) = NoId \/ \A j \in 1..(i - 1) : clip_id(s[j]) # clip_id(s[i])
          THEN <<s[i]>> ELSE <<>>) \o FirstOccurrencesFrom(s, i + 1)
FirstOccurrences(s) == FirstOccurrencesFrom(s, 1)
NoIdTwice(s) ==
    \A i, j \in 1..Len(s) : (i # j /\ clip_id(s[i]) # NoId) => clip_id(s[i]) # clip_id(s[j])
SyncStep == pc = "sync" /\ pc' = "synced"

\* C3 as stated: with an anchor in the probe window the cache afterwards
\* loads as the live items before the anchor followed by the cached items,
\* no id twice, and shifted_clips is the number of live items before the anchor.
C3_Original ==
    [][SyncStep =>
        LET before == load_cached_clips(cache).clips
            window == ProbeWindow(feed, pageSize, args.head_sync_pages)
            anchors == AnchorPositions(window, before)
            prefix == SubSeq(window, 1, FirstOf(anchors) - 1)
            after == load_cached_clips(cache').clips
        IN (before # <<>> /\ anchors # {} /\ syncStatus' \in SyncReturned) =>
              /\ after = prefix \o before
              /\ NoIdTwice(after)
              /\ shifted' = Len(prefix)]_vars

\* C3 as amended: the cache afterwards loads as the live items before the
\* anchor, deduplicated by id (first occurrence kept), followed by the cached
\* items, no id twice, and shifted_clips is the number of those deduplicated
\* live items; cached [C2,C1,C0] against live [L1,L0,C2,C1,C0] gives
\* [L1,L0,C2,C1,C0] and 2 shifted items.
C3_HeadMerge ==
    [][SyncStep =>
        LET before == load_cached_clips(cache).clips
            window == ProbeWindow(feed, pageSize, args.head_sync_pages)
            anchors == AnchorPositions(window, before)
            prefix == FirstOccurrences(SubSeq(window, 1, FirstOf(anchors) - 1))
            after == load_cached_clips(cache')
        IN (before # <<>> /\ anchors # {} /\ syncStatus' \in SyncReturned) =>
              /\ ~after.raised
              /\ after.clips = prefix \o before
              /\ NoIdTwice(after.clips)
              /\ shifted' = Len(prefix)
              /\ syncStatus' = IF shifted' > 0 THEN "shifted" ELSE "up_to_date"
              /\ (feed = ExampleLive /\ before = ExampleCached) =>
                    (after.clips = ExampleLive /\ shifted' = 2)]_vars

C3_Witness ==
    /\ pc = "synced" /\ syncStatus = "shifted" /\ shifted = 2
    /\ feed = ExampleLive /\ load_cached_clips(cache).clips = ExampleLive
    /\ cache[0] = Data(<<5, 4>>) /\ cache[NumChunks(5)] = Data(<<>>)

\* C4: sync_cache_head leaves every page file as it was when it reports
\* no-overlap, up-to-date or empty-cache (or raises); the directory changes
\* only when it reports shifted or feed-empty.
C4_SyncFrame ==
    [][SyncStep =>
          /\ syncStatus' \notin {"shifted", "feed_empty"} => cache' = cache
          /\ cache' # cache => syncStatus' \in {"shifted", "feed_empty"}
          /\ syncStatus' = "shifted" => cache' = rewrite_cache_clips(cache, load_cached_clips(cache').clips)
          /\ syncStatus' = "feed_empty" => cache' = rewrite_cache_clips(cache, <<>>)]_vars

C4_Witness ==
    /\ pc = "synced" /\ syncStatus = "no_overlap_refresh"
    /\ PageFiles(cache) # {} /\ feed # <<>>
    /\ load_cached_clips(cache).clips # <<>>

\* ------------------------------------------------- progress_check main()
Stop(kind, p) == [kind |-> kind, page |-> p]

RunArgs ==
    [refresh : BOOLEAN, head_sync_pages : 0..MaxArg, max_pages : 0..MaxArg]

\* The condition of line 257.
SyncRuns(a, dir) == ~a.refresh /\ a.head_sync_pages > 0 /\ PageFiles(dir) # {}

\* Lines 254-287: the head sync with main's handling of its result, and the
\* initial values of the scan.
BeginRun(a, fetched) ==
    /\ pc = "idle"
    /\ LET status0 == IF a.head_sync_pages <= 0 THEN "disabled_by_flag" ELSE "skipped"
           syncs == SyncRuns(a, cache)
           r == sync_cache_head(cache, feed, pageSize, a.head_sync_pages, fetched)
       IN IF syncs /\ r.status \in {"raised", "AttributeError"}
          THEN /\ pc' = "done"
               /\ outcome' = IF r.status = "raised" THEN "exit1" ELSE "traceback"
               /\ syncStatus' = r.status
               /\ shifted' = 0
               /\ args' = a
               /\ cache' = cache
          ELSE /\ pc' = "scan"
               /\ outcome' = "none"
               /\ syncStatus' = IF syncs THEN r.status
                                ELSE IF a.refresh THEN "skipped_refresh_mode" ELSE status0
               /\ shifted' = IF syncs THEN r.shifted_clips ELSE 0
               /\ args' = IF syncs /\ r.status = "no_overlap_refresh"
                          THEN [a EXCEPT !.refresh = TRUE] ELSE a
               /\ cache' = IF ~syncs THEN cache
                           ELSE IF r.status = "no_overlap_refresh" THEN EmptyDir
                           ELSE r.dir
    /\ page' = 0 /\ clips' = <<>> /\ complete' = TRUE /\ stopReason' = NoStop
    /\ UNCHANGED <<feed, pageSize, unique>>
    /\ UNCHANGED <<storeVars, fetchVars, diffVars, loopVars, fileVars, nameVars, passVars, sleepVars>>

ReadCachedPage_absent_ends(f, refresh) ==
    CASE refresh -> "refetch"
      [] f.kind = "none" -> "end"
      [] f.kind \in {"bad", "scalar", "objnum"} -> "refetch"
      [] f.kind = "objfalsy" -> "end"
      [] f.clips = <<>> -> "end"
      [] OTHER -> "batch"

\* Lines 298-312: what reading the cache file of a page does.  "end": the
\* batch is falsy; "batch": it was added to clips; "refetch": the file is
\* absent, refresh is on, or reading raised inside the try block.
ReadCachedPage(f, refresh) ==
    CASE f.kind = "none" \/ refresh -> "refetch"
      [] f.kind \in {"bad", "scalar", "objnum"} -> "refetch"
      [] f.kind = "objfalsy" -> "end"
      [] f.clips = <<>> -> "end"
      [] OTHER -> "batch"

StopOf_next_page(fetched, p) ==
    CASE fetched = "AuthFailure" -> Stop("auth_failed", p)
      [] fetched = "NonRetryableHTTP" -> Stop("http_4xx", p + 1)
      [] OTHER -> Stop("max_retries_exceeded", p + 1)

\* fetch_live_page ended with an exception: lines 330-344.
StopOf(fetched, p) ==
    CASE fetched = "AuthFailure" -> Stop("auth_failed", p)
      [] fetched = "NonRetryableHTTP" -> Stop("http_4xx", p)
      [] OTHER -> Stop("max_retries_exceeded", p)

\* One pass of the "while True" loop of lines 289-351.
ScanPage ==
    /\ pc = "scan"
    /\ IF args.max_pages # 0 /\ page >= args.max_pages
       THEN /\ complete' = FALSE
            /\ stopReason' = Stop("max_pages_reached", args.max_pages)
            /\ pc' = "summary"
            /\ UNCHANGED <<cache, page, clips>>
       ELSE LET read == ReadCachedPage(cache[page], args.refresh) IN
            CASE read = "end" ->
                    /\ stopReason' = Stop("end_of_feed_page", page)
                    /\ pc' = "summary"
                    /\ UNCHANGED <<cache, page, clips, complete>>
              [] read = "batch" ->
                    /\ clips' = clips \o cache[page].clips
                    /\ page' = page + 1
                    /\ UNCHANGED <<cache, complete, stopReason, pc>>
              [] OTHER ->
                    \E fetched \in FetchResults :
                       IF fetched = "ok"
                       THEN LET batch == LivePage(feed, pageSize, page) IN
                            /\ cache' = [cache EXCEPT ![page] = Data(batch)]
                            /\ IF batch = <<>>
                               THEN /\ stopReason' = Stop("end_of_feed_page", page)
                                    /\ pc' = "summary"
                                    /\ UNCHANGED <<page, clips>>
                               ELSE /\ clips' = clips \o batch
                                    /\ page' = page + 1
                                    /\ UNCHANGED <<stopReason, pc>>
                            /\ UNCHANGED complete
                       ELSE /\ complete' = FALSE
                            /\ stopReason' = StopOf(fetched, page)
                            /\ pc' = "summary"
                            /\ UNCHANGED <<cache, page, clips>>
    /\ UNCHANGED <<feed, pageSize, args, syncStatus, shifted, unique, outcome>>
    /\ UNCHANGED <<storeVars, fetchVars, diffVars, loopVars, fileVars, nameVars, passVars, sleepVars>>

\* Lines 353-416: the summary.  Its dedupe loop calls c.get on every entry
\* of clips, and the run ends with SystemExit(2) under --fail-on-partial.
Summarize(fail_on_partial) ==
    /\ pc = "summary"
    /\ pc' = "done"
    /\ IF HasNonRec(clips)
       THEN outcome' = "traceback" /\ unique' = <<>>
       ELSE /\ unique' = dedupe_clips_by_id(clips)
            /\ outcome' = IF fail_on_partial /\ ~complete THEN "exit2" ELSE "exit0"
    /\ UNCHANGED <<envVars, args, page, clips, complete, stopReason, syncStatus, shifted>>
    /\ UNCHANGED <<storeVars, fetchVars, diffVars, loopVars, fileVars, nameVars, passVars, sleepVars>>

\* The process ends: its variables are gone, the cache directory stays.
Exit ==
    /\ pc = "done"
    /\ pc' = "idle" /\ args' = NoArgs /\ page' = 0 /\ clips' = <<>> /\ complete' = TRUE
    /\ stopReason' = NoStop /\ syncStatus' = "skipped" /\ shifted' = 0
    /\ unique' = <<>> /\ outcome' = "none"
    /\ UNCHANGED <<envVars, storeVars, fetchVars, diffVars, loopVars, fileVars, nameVars, passVars, sleepVars>>

\* The remote gains one new clip at the head of the feed between two runs.
InsertHead ==
    /\ pc = "idle"
    /\ Len(feed) < MaxFeed
    /\ feed' = <<Len(feed) + 1>> \o feed
    /\ UNCHANGED <<pageSize, cache, runVars, storeVars, fetchVars, diffVars, loopVars, fileVars, nameVars, passVars, sleepVars>>

\* ----------------------------- specification of repeated progress_check runs
\* Runs of progress_check with any arguments, from an empty cache directory,
\* against a feed that grows at its head between runs.
Init ==
    /\ feed = <<>>
    /\ pageSize \in 1..MaxPageSize
    /\ cache = EmptyDir
    /\ pc = "idle" /\ args = NoArgs /\ page = 0 /\ clips = <<>> /\ complete = TRUE
    /\ stopReason = NoStop /\ syncStatus = "skipped" /\ shifted = 0
    /\ unique = <<>> /\ outcome = "none"
    /\ StoreIdle /\ FetchIdle /\ DiffIdle /\ LoopIdle /\ FileIdle /\ NameIdle /\ PassIdle /\ SleepIdle

Next ==
    \/ \E a \in RunArgs :
          \E fetched \in IF SyncRuns(a, cache) THEN {"ok", "raised"} ELSE {"ok"} :
             BeginRun(a, fetched)
    \/ ScanPage
    \/ \E fail_on_partial \in BOOLEAN : Summarize(fail_on_partial)
    \/ Exit
    \/ InsertHead

Spec == Init /\ [][Next]_vars

\* The run is one thread: once started, its scan loop and its summary keep
\* executing until the process exits.
SpecRun ==
    /\ Spec
    /\ WF_vars(ScanPage)
    /\ WF_vars(\E fail_on_partial \in BOOLEAN : Summarize(fail_on_partial))

IsEmptyBatch(f) == f.kind \in {"obj", "list"} /\ f.clips = <<>>
RunCompleted == pc = "done" /\ outcome \in {"exit0", "exit2"}

\* C6: after every completed run, a page file holding an empty batch is the
\* last page file: no page file with a greater index exists.
C6_EndMarker ==
    RunCompleted =>
        \A k \in PageIdx : IsEmptyBatch(cache[k]) => \A j \in PageIdx : j > k => cache[j] = NoFile

\* C7: after every completed run against a feed that only grows at its
\* head, the clips read from the cache pages in ascending index order are a
\* contiguous run of the live feed: no live clip between two cached clips is
\* absent from the cache.
C7_ContiguousPrefix ==
    RunCompleted =>
        LET got == IdsOf(load_cached_clips(cache).clips)
            at == {i \in 1..Len(feed) : feed[i] \in got}
        IN \A i, j \in at : \A k \in i..j : k \in at

\* --------------------------------------- specification of the cache store
\* Either rewrite_cache_clips on any short clip sequence followed by a load,
\* or one reader (head-sync load, planner load, full scan) on a directory
\* whose first pages hold any content, corrupt content included.
StorePages == 0..2
StoreContents ==
    {NoFile, Bad, Scalar, ObjFalsy, ObjNum, ObjIter, Data(<<>>), Data(<<NonRec>>),
     BareList(<<1, NoId>>)} \cup {Data(<<i>>) : i \in 1..MaxId}
StoreDirs ==
    {[k \in PageIdx |-> IF k \in StorePages THEN d[k] ELSE NoFile] :
        d \in [StorePages -> StoreContents]}
OldDirs ==
    {EmptyDir, [k \in PageIdx |-> Data(<<1>>)],
     [k \in PageIdx |-> IF k = MaxPageIdx THEN Bad ELSE NoFile],
     [k \in PageIdx |-> IF k = 0 THEN Data(<<>>) ELSE Data(<<2>>)]}
StoreFeed == <<MaxId + 2, MaxId + 1>>

InitStore ==
    /\ \/ pc = "idle" /\ cache \in StoreDirs /\ items = <<>>
       \/ pc = "rewrite" /\ cache \in OldDirs /\ items \in SeqsUpTo(0..MaxId, MaxLen)
    /\ feed = StoreFeed /\ pageSize = 1
    /\ args = NoArgs /\ page = 0 /\ clips = <<>> /\ complete = TRUE
    /\ stopReason = NoStop /\ syncStatus = "skipped" /\ shifted = 0
    /\ unique = <<>> /\ outcome = "none"
    /\ loaded = Returned(<<>>)
    /\ FetchIdle /\ DiffIdle /\ LoopIdle /\ FileIdle /\ NameIdle /\ PassIdle /\ SleepIdle

Rewrite ==
    /\ pc = "rewrite"
    /\ cache' = rewrite_cache_clips(cache, items)
    /\ pc' = "rewritten"
    /\ UNCHANGED <<feed, pageSize, args, page, clips, complete, stopReason, syncStatus,
                   shifted, unique, outcome, storeVars, fetchVars, diffVars, loopVars, fileVars, nameVars, passVars, sleepVars>>

LoadAfterRewrite ==
    /\ pc = "rewritten"
    /\ loaded' = load_cached_clips(cache)
    /\ pc' = "reloaded"
    /\ UNCHANGED <<envVars, args, page, clips, complete, stopReason, syncStatus,
                   shifted, unique, outcome, items, fetchVars, diffVars, loopVars, fileVars, nameVars, passVars, sleepVars>>

HeadLoad ==
    /\ pc = "idle"
    /\ loaded' = load_cached_clips(cache)
    /\ pc' = "headloaded"
    /\ UNCHANGED <<envVars, args, page, clips, complete, stopReason, syncStatus,
                   shifted, unique, outcome, items, fetchVars, diffVars, loopVars, fileVars, nameVars, passVars, sleepVars>>

PlannerLoad ==
    /\ pc = "idle"
    /\ loaded' = load_cache_clips(cache)
    /\ pc' = "plannerloaded"
    /\ UNCHANGED <<envVars, args, page, clips, complete, stopReason, syncStatus,
                   shifted, unique, outcome, items, fetchVars, diffVars, loopVars, fileVars, nameVars, passVars, sleepVars>>

NextStore ==
    \/ Rewrite
    \/ LoadAfterRewrite
    \/ HeadLoad
    \/ PlannerLoad
    \/ BeginRun(NoArgs, "ok")
    \/ ScanPage
    \/ \E fail_on_partial \in BOOLEAN : Summarize(fail_on_partial)

SpecStore == InitStore /\ [][NextStore]_vars

RECURSIVE ConcatPages(_, _)
ConcatPages(dir, k) ==
    IF k > MaxPageIdx THEN <<>> ELSE dir[k].clips \o ConcatPages(dir, k + 1)

\* C5: rewrite(items) followed by load() returns the first occurrence of
\* every id of items in order (id-less records all kept), and the directory
\* then holds ceil(len/batch) non-empty data pages whose batches add up to
\* items, then one empty page, and no other page file.
C5_RoundTrip ==
    /\ pc \in {"rewritten", "reloaded"} =>
         LET n == Len(items)
             data == IF n % CACHE_PAGE_SIZE = 0 THEN n \div CACHE_PAGE_SIZE
                     ELSE n \div CACHE_PAGE_SIZE + 1
         IN /\ \A k \in PageIdx :
                 /\ k < data => (cache[k].kind = "obj" /\ cache[k].clips # <<>>
                                 /\ Len(cache[k].clips) <= CACHE_PAGE_SIZE)
                 /\ k = data => cache[k] = Data(<<>>)
                 /\ k > data => cache[k] = NoFile
            /\ ConcatPages(cache, 0) = items
    /\ pc = "reloaded" => loaded = Returned(FirstOccurrences(items))

C5_Witness ==
    /\ pc = "reloaded" /\ Len(items) = CACHE_PAGE_SIZE
    /\ Len(loaded.clips) < Len(items)
    /\ cache[1] = Data(<<>>) /\ cache[0].clips = items

\* The first page, in ascending index order, that is missing, unreadable or
\* holds an empty batch, and the clips stored in the pages before it.
IsDataPage(f) == f.kind \in {"obj", "list"} /\ f.clips # <<>> /\ ~HasNonRec(f.clips)
FirstStopPage(dir) ==
    IF \A k \in PageIdx : IsDataPage(dir[k]) THEN MaxPageIdx + 1
    ELSE FirstOf({k \in PageIdx : ~IsDataPage(dir[k])})
ClipsBeforeStop(dir) ==
    UNION {Range(dir[k].clips) : k \in {j \in PageIdx : j < FirstStopPage(dir)}}

\* C8: a cache load returns (and the planner counts as expected) no clip
\* stored in a page file that comes after the first missing, unreadable or
\* empty page.
C8_LoadStops ==
    (pc \in {"headloaded", "plannerloaded"} /\ ~loaded.raised) =>
        Range(loaded.clips) \subseteq ClipsBeforeStop(cache)

\* C9: whatever a page file holds, no cache reader raises: the head-sync
\* load and the planner load return, and the full scan ends without a traceback.
C9_CorruptNeverFatal ==
    /\ pc \in {"headloaded", "plannerloaded"} => ~loaded.raised
    /\ pc = "done" => outcome # "traceback"

\* ------------------------------------------- specification of the diffing
\* expected and actual are Counters: functions from the bases that occur to
\* their positive counts.  A dict is a function on its keys.
Bases == {"A", "B", "C"}
Counters == UNION {[D -> 1..MaxCount] : D \in SUBSET Bases}
Get(counter, base) == IF base \in DOMAIN counter THEN counter[base] ELSE 0

progress_missing_le(expected_, actual_) ==
    [base \in {b \in DOMAIN expected_ : Get(actual_, b) <= expected_[b]} |->
        <<expected_[base], Get(actual_, base)>>]
progress_missing(expected_, actual_) ==
    [base \in {b \in DOMAIN expected_ : Get(actual_, b) < expected_[b]} |->
        <<expected_[base], Get(actual_, base)>>]
progress_extra(expected_, actual_) ==
    [base \in {b \in DOMAIN actual_ : Get(actual_, b) > Get(expected_, b)} |->
        <<Get(actual_, base), Get(expected_, base)>>]
targeted_missing_need(expected_, actual_) ==
    [base \in {b \in DOMAIN expected_ : expected_[b] > Get(actual_, b)} |->
        expected_[base]]
targeted_missing(expected_, actual_) ==
    [base \in {b \in DOMAIN expected_ : expected_[b] > Get(actual_, b)} |->
        expected_[base] - Get(actual_, base)]

InitDiff ==
    /\ expected \in Counters /\ actual \in Counters /\ diff = NoDiff
    /\ pc = "diff" /\ args = NoArgs /\ page = 0 /\ clips = <<>> /\ complete = TRUE
    /\ stopReason = NoStop /\ syncStatus = "skipped" /\ shifted = 0
    /\ unique = <<>> /\ outcome = "none"
    /\ EnvIdle /\ StoreIdle /\ FetchIdle /\ LoopIdle /\ FileIdle /\ NameIdle /\ PassIdle /\ SleepIdle

ProgressDiff ==
    /\ pc = "diff"
    /\ diff' = [tool |-> "progress_check",
                missing |-> progress_missing(expected, actual),
                extra |-> progress_extra(expected, actual)]
    /\ pc' = "diffed"
    /\ UNCHANGED <<envVars, args, page, clips, complete, stopReason, syncStatus,
                   shifted, unique, outcome, storeVars, fetchVars, expected, actual,
                   loopVars, fileVars, nameVars, passVars, sleepVars>>

TargetedDiff ==
    /\ pc = "diff"
    /\ diff' = [tool |-> "targeted_update",
                missing |-> targeted_missing(expected, actual),
                extra |-> <<>>]
    /\ pc' = "diffed"
    /\ UNCHANGED <<envVars, args, page, clips, complete, stopReason, syncStatus,
                   shifted, unique, outcome, storeVars, fetchVars, expected, actual,
                   loopVars, fileVars, nameVars, passVars, sleepVars>>

NextDiff == ProgressDiff \/ TargetedDiff

SpecDiff == InitDiff /\ [][NextDiff]_vars

\* C10: for every base, with e expected and a local files, the base is
\* listed as missing iff max(0, e - a) is positive and its entry then gives
\* that deficit (the checker as the pair need e, have a; the updater as the
\* number e - a); it is listed as extra iff a - e is positive, with the pair
\* have a, expected e; no base is listed in both.
C10_Diff ==
    pc = "diffed" =>
        \A base \in Bases :
            LET e == Get(expected, base)
                a == Get(actual, base)
                deficit == Max(0, e - a)
                surplus == a - e
                isMissing == base \in DOMAIN diff.missing
                isExtra == base \in DOMAIN diff.extra
            IN /\ isMissing <=> deficit > 0
               /\ (isMissing /\ diff.tool = "progress_check") =>
                      (diff.missing[base] = <<e, a>> /\ e - a = deficit)
               /\ (isMissing /\ diff.tool = "targeted_update") =>
                      diff.missing[base] = deficit
               /\ diff.tool = "progress_check" =>
                      /\ isExtra <=> surplus > 0
                      /\ isExtra => diff.extra[base] = <<a, e>>
               /\ ~(isMissing /\ isExtra)

C10_Witness ==
    /\ pc = "diffed" /\ diff.tool = "progress_check"
    /\ Get(expected, "A") = 3 /\ Get(actual, "A") = 2
    /\ DOMAIN diff.missing = {"A"} /\ diff.missing["A"] = <<3, 2>>
    /\ DOMAIN diff.extra = {"B"}

\* The number of files each listed base lacks, and has too many.
Deficits(d) ==
    [base \in DOMAIN d.missing |->
        IF d.tool = "progress_check" THEN d.missing[base][1] - d.missing[base][2]
        ELSE d.missing[base]]
Surpluses(d) == [base \in DOMAIN d.extra |-> d.extra[base][1] - d.extra[base][2]]
ExampleExpected == [base \in {"A", "B"} |-> IF base = "A" THEN 3 ELSE 1]
ExampleActual == [base \in {"A", "C"} |-> IF base = "A" THEN 2 ELSE 1]
ExampleDiffed == pc = "diffed" /\ expected = ExampleExpected /\ actual = ExampleActual

\* C11 as stated: for expected {A:3, B:1} and local {A:2, C:1} the missing
\* map is exactly {A:1} and the extra map exactly {C:1}.
C11_Original ==
    ExampleDiffed =>
        /\ Deficits(diff) = [base \in {"A"} |-> 1]
        /\ diff.tool = "progress_check" => Surpluses(diff) = [base \in {"C"} |-> 1]

\* C11: for expected {A:3, B:1} and local {A:2, C:1} the missing map is
\* exactly {A:1, B:1} (B has no local file) and the extra map exactly {C:1}.
C11_Example ==
    ExampleDiffed =>
        /\ Deficits(diff) = [base \in {"A", "B"} |-> 1]
        /\ diff.tool = "progress_check" =>
              /\ diff.missing = [base \in {"A", "B"} |-> IF base = "A" THEN <<3, 2>> ELSE <<1, 0>>]
              /\ diff.extra = [base \in {"C"} |-> <<1, 0>>]
              /\ Surpluses(diff) = [base \in {"C"} |-> 1]
        /\ diff.tool = "targeted_update" => diff.extra = <<>>

C11_Witness ==
    ExampleDiffed /\ diff.tool = "targeted_update" /\ DOMAIN diff.missing = {"A", "B"}

\* ------------------------------------------ targeted_update: the planner
\* The ceiling used when --max-retries is 0.
NoCeiling == 9999999

\* clips_by_base[base] as load_cache_clips leaves it: the ids of the clips of
\* that base in ascending (created_at, id) order.
KeyLE(cat, x, y) ==
    \/ cat[x].created_at < cat[y].created_at
    \/ cat[x].created_at = cat[y].created_at /\ x <= y
RECURSIVE SortClips(_, _)
SortClips(cat, S) ==
    IF S = {} THEN <<>>
    ELSE LET m == CHOOSE x \in S : \A y \in S : KeyLE(cat, x, y)
         IN <<m>> \o SortClips(cat, S \ {m})
clips_by_base(cat, base) == SortClips(cat, {id \in DOMAIN cat : cat[id].base = base})
ExpectedOf(cat) ==
    [base \in {cat[id].base : id \in DOMAIN cat} |->
        Cardinality({id \in DOMAIN cat : cat[id].base = base})]

\* sorted(missing_counts.keys(), key=sort_key): hinted bases first, each
\* group in lexicographic order.
BaseOrder == <<"A", "B", "C">>
InGroup(keys, hinted, wantHinted, base) == base \in keys /\ ((base \in hinted) = wantHinted)
RECURSIVE Filter(_, _, _, _, _)
Filter(order, i, keys, hinted, wantHinted) ==
    IF i > Len(order) THEN <<>>
    ELSE (IF InGroup(keys, hinted, wantHinted, order[i]) THEN <<order[i]>> ELSE <<>>)
         \o Filter(order, i + 1, keys, hinted, wantHinted)
SortedBases_lexicographic(keys, hinted) ==
    Filter(BaseOrder, 1, keys, {}, FALSE)
SortedBases(keys, hinted) ==
    Filter(BaseOrder, 1, keys, hinted, TRUE) \o Filter(BaseOrder, 1, keys, hinted, FALSE)

Eligible_at_ceiling(failed, id, per_clip_max_failures) ==
    Get(failed, id) <= per_clip_max_failures
Eligible(failed, id, per_clip_max_failures) ==
    ~(Get(failed, id) >= per_clip_max_failures)

CapReached_never(plan_, max_downloads) == FALSE
CapReached(plan_, max_downloads) == Len(plan_) >= max_downloads

\* The inner loop of build_plan over the clips of one base, from position j.
RECURSIVE PlanClips(_, _, _, _, _, _, _)
PlanClips(cs, j, need, plan_, failed, max_downloads, ceiling) ==
    IF j > Len(cs) THEN plan_
    ELSE IF ~Eligible(failed, cs[j], ceiling)
         THEN PlanClips(cs, j + 1, need, plan_, failed, max_downloads, ceiling)
         ELSE LET p2 == Append(plan_, cs[j])
              IN IF need - 1 <= 0 \/ CapReached(p2, max_downloads) THEN p2
                 ELSE PlanClips(cs, j + 1, need - 1, p2, failed, max_downloads, ceiling)

\* The outer loop of build_plan over the sorted bases, from position i.
RECURSIVE PlanBases(_, _, _, _, _, _, _, _)
PlanBases(order, i, plan_, missing_counts, cat, failed, max_downloads, ceiling) ==
    IF i > Len(order) THEN plan_
    ELSE LET need == missing_counts[order[i]]
         IN IF need <= 0
            THEN PlanBases(order, i + 1, plan_, missing_counts, cat, failed, max_downloads, ceiling)
            ELSE LET p2 == PlanClips(clips_by_base(cat, order[i]), 1, need, plan_, failed,
                                     max_downloads, ceiling)
                 IN IF CapReached(p2, max_downloads) THEN p2
                    ELSE PlanBases(order, i + 1, p2, missing_counts, cat, failed,
                                   max_downloads, ceiling)

build_plan(missing_counts, cat, failed, hinted, max_downloads, per_clip_max_failures) ==
    PlanBases(SortedBases(DOMAIN missing_counts, hinted), 1, <<>>, missing_counts, cat, failed,
              max_downloads, per_clip_max_failures)

RECURSIVE SumOver(_, _)
SumOver(f, S) ==
    IF S = {} THEN 0 ELSE LET x == CHOOSE x \in S : TRUE IN f[x] + SumOver(f, S \ {x})

resolve_cycle_download_limit_one(max_downloads, missing_files) ==
    IF max_downloads # 0 /\ max_downloads > 0 THEN max_downloads ELSE 1

resolve_cycle_download_limit(max_downloads, missing_files) ==
    IF max_downloads # 0 /\ max_downloads > 0 THEN max_downloads ELSE Max(1, missing_files)

per_clip_max_failures(max_retries) ==
    IF max_retries # 0 THEN Max(max_retries, 1) ELSE NoCeiling

\* ------------------------------------- targeted_update: the recovery loop
\* What a call of download_clip that returns can report: ok or an error, and
\* how many *.mp3 files it added (one per attempt whose stream broke after the
\* file was opened, plus the file of the successful attempt).
DownloadResults(max_retries) ==
    {r \in [ok : BOOLEAN, error : {"none", "auth_failed", "http", "retries"},
            added : 0..(MaxPartial + 1)] :
        LET broken == IF r.ok THEN r.added - 1 ELSE r.added
        IN /\ r.ok <=> r.error = "none"
           /\ broken >= 0 /\ broken <= MaxPartial
           /\ r.error = "retries" => max_retries # 0
           /\ max_retries > 0 =>
                 broken <= (IF r.error = "retries" THEN max_retries ELSE max_retries - 1)}

AddFiles(counter, base, n) ==
    IF n = 0 THEN counter
    ELSE [b \in DOMAIN counter \cup {base} |-> Get(counter, b) + (IF b = base THEN n ELSE 0)]

Pop(failed, id) == [k \in DOMAIN failed \ {id} |-> failed[k]]
Increment_unless_auth(failed, id, result) ==
    IF result.error = "auth_failed" THEN failed
    ELSE [k \in DOMAIN failed \cup {id} |-> IF k = id THEN Get(failed, id) + 1 ELSE failed[k]]
Increment(failed, id, result) ==
    [k \in DOMAIN failed \cup {id} |-> IF k = id THEN Get(failed, id) + 1 ELSE failed[k]]

RemainingMissing(cat, inventory) ==
    LET m == targeted_missing(ExpectedOf(cat), inventory) IN SumOver(m, DOMAIN m)

\* Lines 325-355: scan, diff and plan of one cycle.
StartCycle ==
    /\ pc = "cycle"
    /\ LET exp == ExpectedOf(catalog)
           missing == targeted_missing(exp, actual)
           missing_files == SumOver(missing, DOMAIN missing)
           cycle_max_downloads == resolve_cycle_download_limit(largs.max_downloads, missing_files)
           p == build_plan(missing, catalog, failed_attempts, hinted_bases, cycle_max_downloads,
                           per_clip_max_failures(largs.max_retries))
       IN /\ expected' = exp
          /\ diff' = [tool |-> "targeted_update", missing |-> missing, extra |-> <<>>]
          /\ plan' = p
          /\ queue' = p
    /\ downloaded_this_cycle' = 0
    /\ pc' = "execute"
    /\ UNCHANGED <<envVars, args, page, clips, complete, stopReason, syncStatus, shifted, unique,
                   outcome, storeVars, fetchVars, actual, catalog, hinted_bases, fetchComplete,
                   largs, failed_attempts, savedState, idle_cycles, lastResult, fileVars, nameVars, passVars, sleepVars>>

\* Lines 356-380: one iteration of the loop over the plan.
ExecuteNext ==
    /\ pc = "execute" /\ queue # <<>>
    /\ LET clip_id_ == Head(queue)
       IN \/ /\ largs.dry_run
             /\ UNCHANGED <<failed_attempts, downloaded_this_cycle, actual, lastResult>>
          \/ /\ ~largs.dry_run
             /\ \E r \in DownloadResults(largs.max_retries) :
                  /\ r.ok \/ Get(failed_attempts, clip_id_) < MaxFailCount
                  /\ IF r.ok
                     THEN /\ failed_attempts' = Pop(failed_attempts, clip_id_)
                          /\ downloaded_this_cycle' = downloaded_this_cycle + 1
                     ELSE /\ failed_attempts' = Increment(failed_attempts, clip_id_, r)
                          /\ UNCHANGED downloaded_this_cycle
                  /\ actual' = AddFiles(actual, catalog[clip_id_].base, r.added)
                  /\ lastResult' = [clip |-> clip_id_, error |-> r.error,
                                    before |-> Get(failed_attempts, clip_id_)]
    /\ queue' = Tail(queue)
    /\ UNCHANGED <<envVars, runVars, storeVars, fetchVars, expected, diff, catalog, hinted_bases,
                   fetchComplete, largs, savedState, plan, idle_cycles, fileVars, nameVars, passVars, sleepVars>>

\* Lines 395-403: the decision of a drain cycle.
DrainDecision_ignores_plan(remaining_missing, plan_) ==
    IF remaining_missing = 0 THEN "exited" ELSE "cycle"
DrainDecision(remaining_missing, plan_) ==
    IF remaining_missing = 0 THEN "exited"
    ELSE IF plan_ = <<>> THEN "exited"
    ELSE "cycle"

\* Lines 405-413: the decision of a watch cycle.
WatchDecision_without_flag(a, remaining_missing, idle, fetch_complete) ==
    IF remaining_missing = 0 /\ fetch_complete THEN "exited"
    ELSE IF a.max_idle_cycles # 0 /\ idle >= a.max_idle_cycles THEN "exited"
    ELSE "sleeping"
WatchDecision(a, remaining_missing, idle, fetch_complete) ==
    IF a.stop_when_clean /\ remaining_missing = 0 /\ fetch_complete THEN "exited"
    ELSE IF a.max_idle_cycles # 0 /\ idle >= a.max_idle_cycles THEN "exited"
    ELSE "sleeping"

\* Lines 382-413: persist the counters, update the idle counter, decide.
\* The idle counter is kept up to MaxIdleCount, which is above every
\* --max-idle-cycles value it is compared with, and stays there.
EndCycle ==
    /\ pc = "execute" /\ queue = <<>>
    /\ savedState' = failed_attempts
    /\ idle_cycles' = IF downloaded_this_cycle = 0
                      THEN Min(idle_cycles + 1, MaxIdleCount) ELSE 0
    /\ LET remaining_missing == RemainingMissing(catalog, actual)
       IN pc' = IF largs.once THEN DrainDecision(remaining_missing, plan)
                ELSE WatchDecision(largs, remaining_missing, idle_cycles', fetchComplete)
    /\ UNCHANGED <<envVars, args, page, clips, complete, stopReason, syncStatus, shifted, unique,
                   outcome, storeVars, fetchVars, diffVars, catalog, hinted_bases, fetchComplete,
                   largs, failed_attempts, plan, queue, downloaded_this_cycle, lastResult,
                   fileVars, nameVars, passVars, sleepVars>>

\* Line 413: the poll sleep ends and the next cycle starts.
Wake ==
    /\ pc = "sleeping"
    /\ pc' = "cycle"
    /\ UNCHANGED <<envVars, args, page, clips, complete, stopReason, syncStatus, shifted, unique,
                   outcome, storeVars, fetchVars, diffVars, loopVars, fileVars, nameVars, passVars, sleepVars>>

Clip(base, created_at) == [base |-> base, created_at |-> created_at]
LoopCatalog == <<Clip("A", 2), Clip("A", 1), Clip("B", 1)>>
Catalogs == {LoopCatalog, <<Clip("B", 1), Clip("B", 1), Clip("A", 1)>>}
LoopArgs ==
    [once : BOOLEAN, stop_when_clean : BOOLEAN, dry_run : BOOLEAN,
     max_idle_cycles : {0, 2}, max_downloads : {0, 1, 2}, max_retries : {0, 1, 2}]
Inventories(most) ==
    {c \in UNION {[D -> 1..most] : D \in SUBSET {"A", "B"}} : Get(c, "B") <= 1}
FailureStates(ids) == UNION {[D -> 1..2] : D \in SUBSET ids}

LoopStart ==
    /\ savedState = failed_attempts
    /\ plan = <<>> /\ queue = <<>> /\ downloaded_this_cycle = 0 /\ idle_cycles = 0
    /\ lastResult = NoResult
    /\ expected = <<>> /\ diff = NoDiff
    /\ pc = "cycle" /\ args = NoArgs /\ page = 0 /\ clips = <<>> /\ complete = TRUE
    /\ stopReason = NoStop /\ syncStatus = "skipped" /\ shifted = 0
    /\ unique = <<>> /\ outcome = "none"
    /\ EnvIdle /\ StoreIdle /\ FetchIdle /\ FileIdle /\ NameIdle /\ PassIdle /\ SleepIdle

\* The recovery loop from its start, for every combination of the flags.
InitLoop ==
    /\ catalog = LoopCatalog
    /\ hinted_bases = {"B"}
    /\ actual \in Inventories(1)
    /\ failed_attempts \in {<<>>, <<2, 1, 1>>}
    /\ largs \in LoopArgs
    /\ largs.dry_run => failed_attempts = <<>>
    /\ fetchComplete \in BOOLEAN
    /\ ~largs.stop_when_clean => fetchComplete
    /\ LoopStart

NextLoop == StartCycle \/ ExecuteNext \/ EndCycle \/ Wake

SpecLoop == InitLoop /\ [][NextLoop]_vars

\* The loop started with --once, which never sleeps.  It is one thread and
\* keeps executing its next statement.
InitDrain ==
    /\ catalog = LoopCatalog
    /\ hinted_bases = {"B"}
    /\ actual \in Inventories(1)
    /\ failed_attempts = <<>>
    /\ largs \in {a \in LoopArgs : a.once /\ ~a.stop_when_clean /\ a.max_idle_cycles = 0}
    /\ fetchComplete = TRUE
    /\ LoopStart

NextDrain == StartCycle \/ ExecuteNext \/ EndCycle

\* The step from the head of a cycle to its execution is StartCycle and no
\* other; fairness is stated on that change of pc.
PlanTaken == pc = "cycle" /\ pc' = "execute"

SpecDrain ==
    /\ InitDrain /\ [][NextDrain]_vars
    /\ WF_pc(PlanTaken) /\ WF_vars(ExecuteNext) /\ WF_vars(EndCycle)

\* The planning step alone, for every inventory, failure state, hint set,
\* cycle cap and ceiling.
InitPlan ==
    /\ catalog \in Catalogs
    /\ hinted_bases \in SUBSET {"A", "B"}
    /\ actual \in Inventories(2)
    /\ failed_attempts \in FailureStates(1..3)
    /\ largs \in {a \in LoopArgs : ~a.once /\ ~a.stop_when_clean /\ ~a.dry_run
                                   /\ a.max_idle_cycles = 0}
    /\ fetchComplete = TRUE
    /\ LoopStart

SpecPlan == InitPlan /\ [][StartCycle]_vars

\* ------------------------------------------------ claims about the planner
Ceiling == IF largs.max_retries = 0 THEN NoCeiling ELSE largs.max_retries
Planned == pc = "execute" /\ queue = plan
BaseOf(id) == catalog[id].base
PlannedOf(base) == {i \in DOMAIN plan : BaseOf(plan[i]) = base}
Deficit(base) == Max(0, Get(ExpectedOf(catalog), base) - Get(actual, base))
TotalDeficit == Deficit("A") + Deficit("B") + Deficit("C")
AttemptStep(id) ==
    pc = "execute" /\ queue # <<>> /\ Head(queue) = id /\ ~largs.dry_run /\ queue' = Tail(queue)

\* C12: no clip whose failure count is at or above the ceiling is in the
\* plan of a cycle or waits in it for its attempt, and once a clip's count has
\* reached the ceiling no step attempts it or changes its count.
C12_Ceiling ==
    /\ [](Planned => \A i \in DOMAIN plan : Get(failed_attempts, plan[i]) < Ceiling)
    /\ [](pc = "execute" => \A i \in DOMAIN queue : Get(failed_attempts, queue[i]) < Ceiling)
    /\ [][\A id \in DOMAIN catalog :
            Get(failed_attempts, id) >= Ceiling =>
                (~AttemptStep(id) /\ Get(failed_attempts', id) = Get(failed_attempts, id))]_vars

C12_Witness ==
    /\ Planned /\ Deficit("B") > 0 /\ hinted_bases = {"B"} /\ largs.max_downloads = 0
    /\ Get(failed_attempts, 3) >= Ceiling /\ BaseOf(3) = "B"
    /\ \A i \in DOMAIN plan : plan[i] # 3

CycleCap == IF largs.max_downloads > 0 THEN largs.max_downloads ELSE TotalDeficit

\* C13: the plan of a cycle holds no clip id twice, holds for each base at
\* most that base's deficit, and is no longer than the cycle cap: the
\* explicit limit when positive, otherwise the total deficit.
C13_PlanBounds ==
    Planned =>
        /\ \A i, j \in DOMAIN plan : plan[i] = plan[j] => i = j
        /\ \A base \in Bases : Cardinality(PlannedOf(base)) <= Deficit(base)
        /\ Len(plan) <= CycleCap

C13_Witness ==
    /\ Planned /\ largs.max_downloads = 2 /\ Len(plan) = 2 /\ TotalDeficit = 3
    /\ Cardinality(PlannedOf("A")) = 2 /\ Deficit("A") = 2

LexLess(a, b) == <<a, b>> \in {<<"A", "B">>, <<"A", "C">>, <<"B", "C">>}
BaseBefore(a, b) ==
    \/ a \in hinted_bases /\ b \notin hinted_bases
    \/ (a \in hinted_bases) = (b \in hinted_bases) /\ LexLess(a, b)
ClipBefore(x, y) ==
    \/ catalog[x].created_at < catalog[y].created_at
    \/ catalog[x].created_at = catalog[y].created_at /\ x < y
EligibleUnplanned(base) ==
    {id \in DOMAIN catalog :
        /\ BaseOf(id) = base /\ Get(failed_attempts, id) < Ceiling
        /\ \A i \in DOMAIN plan : plan[i] # id}

\* C14: in the plan the clips of hinted bases come before those of all other
\* bases, bases are in lexicographic order within each group, the clips of one
\* base are in ascending (created_at, id) order; and no clip of a non-hinted
\* base is planned while a hinted base has unmet deficit and an eligible clip
\* left out of the plan.
C14_PlanOrder ==
    Planned =>
        /\ \A i, j \in DOMAIN plan :
              i < j =>
                  \/ BaseBefore(BaseOf(plan[i]), BaseOf(plan[j]))
                  \/ BaseOf(plan[i]) = BaseOf(plan[j]) /\ ClipBefore(plan[i], plan[j])
        /\ (\E i \in DOMAIN plan : BaseOf(plan[i]) \notin hinted_bases) =>
              \A h \in hinted_bases :
                  Cardinality(PlannedOf(h)) < Deficit(h) => EligibleUnplanned(h) = {}

C14_Witness ==
    /\ Planned /\ hinted_bases = {"B"} /\ Len(plan) = 2 /\ largs.max_downloads = 2
    /\ BaseOf(plan[1]) = "B" /\ BaseOf(plan[2]) = "A" /\ EligibleUnplanned("A") # {}
    /\ catalog = LoopCatalog /\ plan[2] = 2

\* ---------------------------------------- claims about the recovery loop
\* C15: an attempt that succeeds leaves the clip without a counter, one that
\* fails leaves its counter one higher than before; the counter of every
\* other clip is unchanged by the step; no step lowers or removes a counter
\* except the successful attempt of that clip.
C15_CounterUpdate ==
    [][/\ \A id \in DOMAIN catalog :
            AttemptStep(id) =>
                /\ lastResult'.clip = id
                /\ lastResult'.error = "none" => id \notin DOMAIN failed_attempts'
                /\ lastResult'.error # "none" =>
                      (id \in DOMAIN failed_attempts'
                       /\ failed_attempts'[id] = Get(failed_attempts, id) + 1)
                /\ \A other \in DOMAIN catalog \ {id} :
                      Get(failed_attempts', other) = Get(failed_attempts, other)
       /\ \A id \in DOMAIN catalog :
            Get(failed_attempts', id) < Get(failed_attempts, id) =>
                (AttemptStep(id) /\ lastResult'.error = "none")
       /\ (\A id \in DOMAIN catalog : ~AttemptStep(id)) => failed_attempts' = failed_attempts]_vars

C15_Witness ==
    /\ pc = "execute" /\ lastResult.clip = 2 /\ lastResult.error = "auth_failed"
    /\ lastResult.before = 1 /\ Get(failed_attempts, 2) = 2
    /\ 3 \notin DOMAIN failed_attempts /\ savedState # failed_attempts

\* C16: an attempt that download_clip ends with auth_failed (status 401 or
\* 403) leaves the failure counters exactly as they were.
C16_AuthLeavesCounter ==
    [][\A id \in DOMAIN catalog :
          (AttemptStep(id) /\ lastResult'.error = "auth_failed") =>
              failed_attempts' = failed_attempts]_vars

CycleEnds == pc = "execute" /\ queue = <<>> /\ pc' # pc

\* C19: with --once no state sleeps between cycles, and the step that ends a
\* cycle exits iff the deficit then is zero or the cycle's plan was empty,
\* and otherwise starts the next cycle, whatever the other flags.
C19_Drain ==
    /\ [](largs.once => pc # "sleeping")
    /\ [][(largs.once /\ CycleEnds) =>
            /\ pc' \in {"exited", "cycle"}
            /\ pc' = "exited" <=> (TotalDeficit = 0 \/ plan = <<>>)]_vars

C19_Witness ==
    /\ largs.once /\ pc = "cycle" /\ largs.max_idle_cycles = 2 /\ idle_cycles >= 2
    /\ largs.stop_when_clean /\ fetchComplete /\ TotalDeficit > 0

IdleRule ==
    idle_cycles' = IF downloaded_this_cycle = 0
                   THEN Min(idle_cycles + 1, MaxIdleCount) ELSE 0
IdleCeilingReached == largs.max_idle_cycles > 0 /\ idle_cycles' >= largs.max_idle_cycles

\* C20 as stated: the watch loop exits when the idle counter has reached the
\* ceiling or when the deficit is zero and the last full scan was complete.
C20_Original ==
    [][(~largs.once /\ CycleEnds) =>
          /\ IdleRule
          /\ pc' \in {"exited", "sleeping"}
          /\ pc' = "exited" <=> (IdleCeilingReached \/ (TotalDeficit = 0 /\ fetchComplete))]_vars

\* C20: without --once, the step that ends a cycle sets the idle counter to
\* one more than before if the cycle had no success and to 0 otherwise; it
\* exits iff a positive idle ceiling is reached by that counter, or
\* --stop-when-clean is set and the deficit is zero and the last full scan
\* was complete; otherwise it sleeps, and the next cycle follows the sleep.
C20_Watch ==
    /\ [][(~largs.once /\ CycleEnds) =>
            /\ IdleRule
            /\ pc' \in {"exited", "sleeping"}
            /\ pc' = "exited" <=>
                  (IdleCeilingReached
                   \/ (largs.stop_when_clean /\ TotalDeficit = 0 /\ fetchComplete))]_vars
    /\ [][pc = "sleeping" => pc' = "cycle"]_vars

C20_Witness ==
    /\ ~largs.once /\ pc = "sleeping" /\ TotalDeficit = 0 /\ fetchComplete
    /\ ~largs.stop_when_clean /\ idle_cycles = 1 /\ largs.max_idle_cycles = 2

\* ------------------------------------ download_clip and download_song
\* The output directory as far as one base is concerned.  Index 1 is
\* "<base>.mp3", index n >= 2 is "<base> v<n>.mp3"; part[n] is the same name
\* with ".part" appended.  A file is "absent", "old" (it existed before the
\* download started), "partial" (opened by this download, body incomplete) or
\* "whole" (body written completely by this download).
FileIdx == 1..(MaxVersion + MaxRequests + 1)

RECURSIVE FirstFree(_, _)
FirstFree(dir, n) == IF dir[n] = "absent" THEN n ELSE FirstFree(dir, n + 1)
reserve_unique_path_first(dir) == 1
reserve_unique_path(dir) == IF dir[1] = "absent" THEN 1 ELSE FirstFree(dir, 2)

\* What one iteration of the retry loop can meet.
AttemptEvents ==
    {"auth", "http4xx", "retryable_status", "connect_error", "ok", "stream_error", "killed"}

\* The except branch: give up or sleep and retry.
GiveUp(tool, max_retries, attempt_) ==
    IF tool = "download_clip" THEN max_retries # 0 /\ attempt_ >= max_retries
    ELSE max_retries # 0 /\ attempt_ > max_retries
AfterError(tool, max_retries, attempt_) ==
    IF GiveUp(tool, max_retries, attempt_) THEN "retries" ELSE "running"

\* One iteration of the loop of download_clip (targeted_update.py) or of
\* download_song (Suno_downloader.py).
DownloadAttempt(ev) ==
    /\ pc = "download" /\ dl.state = "running" /\ dl.attempt < MaxRequests
    /\ LET attempt_ == dl.attempt + 1
           n == reserve_unique_path(mp3)
           retry == AfterError(dl.tool, dl.max_retries, attempt_)
           next(state, path) == [dl EXCEPT !.attempt = attempt_, !.state = state, !.path = path]
           \* open("xb") raises FileExistsError when the reserved name exists
           exclusiveFails == dl.tool = "download_clip" /\ mp3[n] # "absent"
       IN CASE ev = "auth" -> dl' = next("auth_failed", 0) /\ UNCHANGED <<mp3, part>>
            [] ev = "http4xx" -> dl' = next("http", 0) /\ UNCHANGED <<mp3, part>>
            [] ev \in {"retryable_status", "connect_error"} ->
                   dl' = next(retry, 0) /\ UNCHANGED <<mp3, part>>
            [] ev \in {"ok", "stream_error", "killed"} /\ exclusiveFails ->
                   dl' = next(retry, n) /\ UNCHANGED <<mp3, part>>
            [] ev = "ok" /\ ~exclusiveFails ->
                   /\ dl' = next("ok", n)
                   /\ mp3' = [mp3 EXCEPT ![n] = "whole"]
                   /\ IF dl.tool = "download_clip" THEN UNCHANGED part
                      ELSE part' = [part EXCEPT ![n] = "absent"]
            [] ev = "stream_error" /\ ~exclusiveFails ->
                   /\ dl' = next(retry, n)
                   /\ IF dl.tool = "download_clip"
                      THEN mp3' = [mp3 EXCEPT ![n] = "partial"] /\ UNCHANGED part
                      ELSE part' = [part EXCEPT ![n] = "absent"] /\ UNCHANGED mp3
            [] ev = "killed" /\ ~exclusiveFails ->
                   /\ dl' = next("interrupted", n)
                   /\ IF dl.tool = "download_clip"
                      THEN mp3' = [mp3 EXCEPT ![n] = "partial"] /\ UNCHANGED part
                      ELSE part' = [part EXCEPT ![n] = "partial"] /\ UNCHANGED mp3
    /\ UNCHANGED <<envVars, runVars, storeVars, fetchVars, diffVars, loopVars, nameVars, passVars, sleepVars>>

OldFiles(most) ==
    {[n \in FileIdx |-> IF n \in S THEN "old" ELSE "absent"] : S \in SUBSET (1..most)}

InitDownload ==
    /\ mp3 \in OldFiles(MaxVersion)
    /\ part \in OldFiles(MaxVersion + 1)
    /\ dl \in [tool : {"download_clip", "download_song"}, max_retries : 0..MaxRetriesArg,
               attempt : {0}, state : {"running"}, path : {0}]
    /\ pc = "download" /\ args = NoArgs /\ page = 0 /\ clips = <<>> /\ complete = TRUE
    /\ stopReason = NoStop /\ syncStatus = "skipped" /\ shifted = 0
    /\ unique = <<>> /\ outcome = "none"
    /\ EnvIdle /\ StoreIdle /\ FetchIdle /\ DiffIdle /\ LoopIdle /\ NameIdle /\ PassIdle /\ SleepIdle

NextDownload == \E ev \in AttemptEvents : DownloadAttempt(ev)

SpecDownload == InitDownload /\ [][NextDownload]_vars

\* The path the rule names: "<base>.mp3" when absent, else the smallest
\* version n >= 2 that is absent.
RulePath(dir) ==
    IF dir[1] = "absent" THEN 1
    ELSE CHOOSE n \in FileIdx \ {1} :
            dir[n] = "absent" /\ \A m \in 2..(n - 1) : dir[m] # "absent"
Reserves == dl'.attempt = dl.attempt + 1 /\ dl'.path # 0

\* C17 as stated: the reserved path follows the rule and names no existing
\* file, and no step of a download changes any file that existed before the
\* download started.
C17_Original ==
    [][/\ Reserves => (dl'.path = RulePath(mp3) /\ mp3[dl'.path] = "absent")
       /\ \A n \in FileIdx : mp3[n] = "old" => mp3'[n] = "old"
       /\ \A n \in FileIdx : part[n] = "old" => part'[n] = "old"]_vars

\* C17: the reserved path follows the rule and names no existing file, and
\* no step of a download changes a *.mp3 file that existed before the step;
\* download_song may replace or delete an older "<name>.mp3.part".
C17_NoOverwrite ==
    [][/\ Reserves => (dl'.path = RulePath(mp3) /\ mp3[dl'.path] = "absent")
       /\ \A n \in FileIdx : mp3[n] # "absent" => mp3'[n] = mp3[n]
       /\ dl.tool = "download_clip" => part' = part]_vars

C17_Witness ==
    /\ dl.state = "ok" /\ dl.path = MaxVersion + 2 /\ dl.attempt = 2
    /\ mp3[1] = "old" /\ mp3[2] = "old" /\ mp3[MaxVersion + 1] = "partial"
    /\ mp3[MaxVersion + 2] = "whole"

Returned_(state) == state \in {"ok", "auth_failed", "http", "retries"}
AddedFiles == {n \in FileIdx : mp3[n] \in {"partial", "whole"}}

\* C18: no *.mp3 file is ever visible with an incomplete body, and a
\* download call that has returned added one file if it succeeded and none
\* if it failed.
C18_NoPartialVisible ==
    /\ \A n \in FileIdx : mp3[n] # "partial"
    /\ Returned_(dl.state) =>
          Cardinality(AddedFiles) = (IF dl.state = "ok" THEN 1 ELSE 0)

\* --------------------------------- claims about one progress_check run
RECURSIVE PagesBefore(_, _, _)
PagesBefore(dir, k, p) ==
    IF k >= p THEN <<>> ELSE dir[k].clips \o PagesBefore(dir, k + 1, p)
ScanEnded == pc \in {"summary", "done"} /\ (pc = "done" => outcome # "exit1")
TerminalStop == ScanEnded /\ stopReason.kind \in {"http_4xx", "max_retries_exceeded"}

\* C22: a run in which a feed request answered 401 or 403 ends with the
\* authorization-failure outcome (exit code 1), not with exit code 0 or 2.
C22_AuthOutcome ==
    (pc = "done" /\ stopReason.kind = "auth_failed") => outcome = "exit1"

\* C23: when the scan stops on a non-retryable status or an exceeded retry
\* budget at page p, the stop reason names that kind and p, no page after p
\* is requested or written, pages 0..p-1 are on disk and their clips are the
\* clips counted, and the run reports an incomplete fetch.
C23_TerminalStop ==
    /\ [](TerminalStop =>
            /\ ~complete /\ stopReason.page = page
            /\ \A k \in PageIdx : k < page => cache[k].kind = "obj" /\ cache[k].clips # <<>>
            /\ clips = PagesBefore(cache, 0, page)
            /\ pc = "done" => unique = FirstOccurrences(clips))
    /\ [][TerminalStop => (cache' = cache \/ pc' = "idle")]_vars
    /\ [][(pc = "scan" /\ pc' = "summary"
           /\ stopReason'.kind \in {"http_4xx", "max_retries_exceeded"}) =>
             (cache' = cache /\ page' = page /\ clips' = clips)]_vars

C23_Witness ==
    /\ pc = "done" /\ stopReason = Stop("http_4xx", 2) /\ outcome = "exit2"
    /\ Len(unique) = 2 * pageSize /\ pageSize > 1 /\ cache[2] = NoFile

\* C24: the scan visits page indexes in ascending order one at a time; a
\* live page is written to the cache file of its index in the step that
\* fetches it and no other file changes; the scan ends at the latest after
\* the page that follows the last feed item; and it reports a complete fetch
\* iff it stopped at a page whose batch, now on disk, is empty.
C24_FullScan ==
    /\ [][pc = "scan" =>
            /\ page' \in {page, page + 1}
            /\ \A k \in PageIdx : k # page => cache'[k] = cache[k]
            /\ page' = page + 1 =>
                  (cache'[page].clips # <<>> /\ clips' = clips \o cache'[page].clips)
            /\ cache'[page] # cache[page] =>
                  cache'[page] = Data(LivePage(feed, pageSize, page))]_vars
    /\ [](ScanEnded =>
            /\ complete <=> stopReason.kind = "end_of_feed_page"
            /\ complete => (stopReason.page = page /\ IsEmptyBatch(cache[page])))
    /\ [](pc = "scan" =>
            /\ page <= Len(feed)
            /\ (args.refresh /\ page > 0) => (page - 1) * pageSize < Len(feed))
    /\ (pc = "scan") ~> (pc = "done")

C24_Witness ==
    /\ pc = "done" /\ complete /\ args.refresh /\ outcome = "exit0"
    /\ Len(feed) = 2 * pageSize /\ stopReason = Stop("end_of_feed_page", 2)
    /\ cache[2] = Data(<<>>) /\ IdsOf(unique) = Range(feed)

\* C27: a run with head sync enabled that reports a complete fetch has
\* counted exactly the ids of the live feed.
C27_CompleteCountsFeed ==
    (pc = "done" /\ outcome \in {"exit0", "exit2"} /\ complete /\ args.head_sync_pages > 0) =>
        IdsOf(unique) = Range(feed)

\* The cached pages hold the oldest item of the live feed.
ReachesEndOfFeed(dir) ==
    feed = <<>> \/ \E k \in PageIdx : feed[Len(feed)] \in Range(dir[k].clips)
ObservesEmptyLivePage(k) ==
    pc = "scan" /\ k = page /\ LivePage(feed, pageSize, page) = <<>>

\* C28: a step writes an empty end-of-feed page only when it observes an
\* empty live page at that index, or when the cached data reach the end of
\* the feed.
C28_SentinelOnlyObserved ==
    [][\A k \in PageIdx :
          (IsEmptyBatch(cache'[k]) /\ cache'[k] # cache[k]) =>
              (ObservesEmptyLivePage(k) \/ ReachesEndOfFeed(cache'))]_vars

\* ------------------------------------------------- deduplication, applied
\* Each of the two dedupe functions is applied to a list of clip records
\* and then to its own result.
InitDedupe ==
    /\ items \in SeqsUpTo(0..MaxId, MaxLen) /\ loaded = Returned(<<>>)
    /\ pc = "dedupe" /\ args = NoArgs /\ page = 0 /\ clips = <<>> /\ complete = TRUE
    /\ stopReason = NoStop /\ syncStatus = "skipped" /\ shifted = 0
    /\ unique = <<>> /\ outcome = "none"
    /\ EnvIdle /\ FetchIdle /\ DiffIdle /\ LoopIdle /\ FileIdle /\ NameIdle /\ PassIdle /\ SleepIdle

DedupeStep(from, to, result) ==
    /\ pc = from /\ pc' = to
    /\ unique' = result
    /\ loaded' = Returned(unique)
    /\ UNCHANGED <<envVars, args, page, clips, complete, stopReason, syncStatus,
                   shifted, outcome, items, fetchVars, diffVars, loopVars, fileVars, nameVars, passVars, sleepVars>>

CheckerDedupe == DedupeStep("dedupe", "checker_once", dedupe_clips_by_id(items))
CheckerDedupeAgain == DedupeStep("checker_once", "checker_twice", dedupe_clips_by_id(unique))
DownloaderDedupe == DedupeStep("dedupe", "downloader_once", downloader_dedupe_clips_by_id(items))
DownloaderDedupeAgain ==
    DedupeStep("downloader_once", "downloader_twice", downloader_dedupe_clips_by_id(unique))

NextDedupe == CheckerDedupe \/ CheckerDedupeAgain \/ DownloaderDedupe \/ DownloaderDedupeAgain
SpecDedupe == InitDedupe /\ [][NextDedupe]_vars

\* The positions of s whose id occurs at no earlier position.
FirstPositions(s) ==
    {i \in 1..Len(s) : HasId(s[i]) /\ \A j \in 1..(i - 1) : clip_id(s[j]) # clip_id(s[i])}
\* t is s restricted to the positions in keep, in the order of s.
RECURSIVE Restrict(_, _, _)
Restrict(s, keep, i) ==
    IF i > Len(s) THEN <<>>
    ELSE (IF i \in keep THEN <<s[i]>> ELSE <<>>) \o Restrict(s, keep, i + 1)
IdLess(s) == {i \in 1..Len(s) : ~HasId(s[i])}

\* C25: the result of dedupe holds, in input order, exactly the first
\* occurrence of every id (progress_check also keeps every record without
\* an id, Suno_downloader drops them), and applying dedupe to its own result
\* returns that result.
C25_Dedupe ==
    /\ pc = "checker_once" => unique = Restrict(items, FirstPositions(items) \cup IdLess(items), 1)
    /\ pc = "downloader_once" => unique = Restrict(items, FirstPositions(items), 1)
    /\ pc \in {"checker_twice", "downloader_twice"} => unique = loaded.clips

C25_Witness ==
    /\ pc = "checker_twice" /\ items = <<2, NoId, 2>> /\ unique = <<2, NoId>>
    /\ loaded.clips = <<2, NoId>>

\* ------------------------------------ the two readers of one cache directory
\* clip_base_name: the base name comes from the clip's title; the titles
\* of the clips here are "A" for odd ids, "B" for even ids and "C" for the
\* record without an id.
clip_base_name(clip) ==
    CASE clip_id(clip) = NoId -> "C"
      [] clip % 2 = 1 -> "A"
      [] OTHER -> "B"
\* Counter(clip_base_name(c) for c in s).
CountByBase(s) ==
    LET named == {clip_base_name(s[i]) : i \in 1..Len(s)}
    IN [b \in named |-> Cardinality({i \in 1..Len(s) : clip_base_name(s[i]) = b})]

\* C29: after a progress_check run, the expected count per base that the
\* run reported equals the expected count per base that targeted_update
\* derives from the cache directory the run left.
C29_SameExpected ==
    (pc = "done" /\ outcome \in {"exit0", "exit2"} /\ complete
        /\ ~load_cache_clips(cache).raised) =>
        CountByBase(unique) = CountByBase(load_cache_clips(cache).clips)

\* ---------------------------------------------------- drain termination
\* C26: a loop started with --once eventually exits.
C26_DrainTerminates == largs.once ~> (pc = "exited")

\* ------------------------------------------- names in the output directory
\* A name is a root followed by zero or more endings " v<N>": "S v2 v3" is
\* the root "S" with the endings 2 and 3.  The same values serve as base
\* names and as the stems of "<stem>.mp3" files.
VersionNumbers == 2..(MaxVersion + 1)
Names(len) == [root : {"S"}, versions : SeqsUpTo(VersionNumbers, len)]

\* reserve_unique_path: the candidate of version n for a base.
Candidate(base, n) ==
    IF n = 1 THEN base ELSE [base EXCEPT !.versions = Append(@, n)]
ReservedStem(dir, base) ==
    Candidate(base, reserve_unique_path(
        [n \in FileIdx |-> IF Candidate(base, n) \in dir THEN "old" ELSE "absent"]))

\* count_local_mp3_by_base: VERSIONED_NAME_RE takes one ending " v<N>" off
\* the stem when there is one; the rest is the base the file counts for.
BaseOfStem(stem) ==
    IF stem.versions # <<>>
    THEN [stem EXCEPT !.versions = SubSeq(@, 1, Len(@) - 1)]
    ELSE stem
count_local_mp3_by_base(dir) ==
    [b \in {BaseOfStem(f) : f \in dir} |-> Cardinality({f \in dir : BaseOfStem(f) = b})]

InitReserve ==
    /\ out_dir \in SUBSET Names(2)
    /\ requested \in Names(1)
    /\ pc = "reserve" /\ args = NoArgs /\ page = 0 /\ clips = <<>> /\ complete = TRUE
    /\ stopReason = NoStop /\ syncStatus = "skipped" /\ shifted = 0
    /\ unique = <<>> /\ outcome = "none"
    /\ actual = count_local_mp3_by_base(out_dir) /\ expected = <<>> /\ diff = NoDiff
    /\ EnvIdle /\ StoreIdle /\ FetchIdle /\ LoopIdle /\ FileIdle /\ PassIdle /\ SleepIdle

\* A file is created at the path reserved for the requested base, and the
\* directory is scanned again.
CreateReserved ==
    /\ pc = "reserve" /\ pc' = "created"
    /\ out_dir' = out_dir \cup {ReservedStem(out_dir, requested)}
    /\ actual' = count_local_mp3_by_base(out_dir')
    /\ UNCHANGED <<envVars, args, page, clips, complete, stopReason, syncStatus, shifted,
                   unique, outcome, storeVars, fetchVars, expected, diff, loopVars, fileVars,
                   requested, passVars, sleepVars>>

SpecReserve == InitReserve /\ [][CreateReserved]_vars

\* C30: creating a file at the path reserved for a base raises the
\* scanner's count of that base by one and changes no other base's count.
C30_RoundTrip ==
    [][\A b \in Names(2) :
          Get(actual', b) = Get(actual, b) + (IF b = requested THEN 1 ELSE 0)]_vars

\* ------------------------------------- progress_check, then targeted_update
\* One progress_check run against a feed of two clips, from an empty cache
\* directory and an empty output directory, followed by targeted_update on
\* the cache, the reports and the output directory the run left.
E2EFeed == <<2, 1>>

InitE2E ==
    /\ feed = E2EFeed
    /\ pageSize \in 2..MaxPageSize
    /\ cache = EmptyDir
    /\ pc = "idle" /\ args = NoArgs /\ page = 0 /\ clips = <<>> /\ complete = TRUE
    /\ stopReason = NoStop /\ syncStatus = "skipped" /\ shifted = 0
    /\ unique = <<>> /\ outcome = "none"
    /\ StoreIdle /\ FetchIdle /\ DiffIdle /\ LoopIdle /\ FileIdle /\ NameIdle /\ PassIdle /\ SleepIdle

\* progress_check lines 353-416: the summary with its reports.  The expected
\* and actual counts per base and the missing and extra lists are written
\* to the report files before the exit code is chosen.
Report(fail_on_partial) ==
    /\ pc = "summary"
    /\ pc' = "done"
    /\ IF HasNonRec(clips)
       THEN outcome' = "traceback" /\ unique' = <<>> /\ UNCHANGED <<expected, diff>>
       ELSE /\ unique' = dedupe_clips_by_id(clips)
            /\ expected' = CountByBase(unique')
            /\ diff' = [tool |-> "progress_check",
                        missing |-> progress_missing(expected', actual),
                        extra |-> progress_extra(expected', actual)]
            /\ outcome' = IF fail_on_partial /\ ~complete THEN "exit2" ELSE "exit0"
    /\ UNCHANGED <<envVars, args, page, clips, complete, stopReason, syncStatus, shifted>>
    /\ UNCHANGED <<storeVars, fetchVars, actual, loopVars, fileVars, nameVars, passVars, sleepVars>>

\* targeted_update lines 253-320: start-up.  The catalog comes from the
\* cache pages, the hinted bases from progress_check's missing list, the
\* completeness flag from its summary; no failure state file exists.  A
\* clip's created_at follows its id, the order in which the feed grew.
StartUpdater(a) ==
    /\ pc = "done" /\ outcome \in {"exit0", "exit2"}
    /\ catalog' = [id \in IdsOf(load_cache_clips(cache).clips) |-> Clip(clip_base_name(id), id)]
    /\ hinted_bases' = DOMAIN diff.missing
    /\ fetchComplete' = complete
    /\ largs' = a
    /\ pc' = "cycle" /\ args' = NoArgs /\ page' = 0 /\ clips' = <<>> /\ complete' = TRUE
    /\ stopReason' = NoStop /\ syncStatus' = "skipped" /\ shifted' = 0
    /\ unique' = <<>> /\ outcome' = "none"
    /\ UNCHANGED <<envVars, storeVars, fetchVars, diffVars, failed_attempts, savedState, plan,
                   queue, downloaded_this_cycle, idle_cycles, lastResult, fileVars, nameVars, passVars, sleepVars>>

E2EArgs ==
    {a \in LoopArgs : ~a.dry_run /\ ~a.stop_when_clean /\ a.max_retries = 1
                      /\ a.max_idle_cycles = 2}

NextE2E ==
    \/ \E a \in RunArgs : BeginRun(a, "ok")
    \/ ScanPage
    \/ \E fail_on_partial \in BOOLEAN : Report(fail_on_partial)
    \/ \E a \in E2EArgs : StartUpdater(a)
    \/ StartCycle
    \/ ExecuteNext
    \/ EndCycle
    \/ Wake

SpecE2E == InitE2E /\ [][NextE2E]_vars

FullScanDone == pc = "done" /\ complete
FirstCycleOfTwo ==
    /\ actual = <<>> /\ DOMAIN catalog = {1, 2} /\ failed_attempts = <<>>
    /\ largs.max_downloads = 0
BothDownloaded ==
    /\ pc = "execute" /\ queue = <<>> /\ largs.once /\ downloaded_this_cycle = 2
    /\ pc' # pc

\* C21 as stated: after the cycle that downloaded both items the loop starts
\* a second cycle, which finds no deficit and exits.
C21_Original == [][BothDownloaded => pc' = "cycle"]_vars

\* C21: the full scan of the two-item feed leaves exactly the data page and
\* the empty page in the cache and reports two missing files; the first
\* drain cycle plans both items; and when both are downloaded the loop
\* finds no deficit at the end of that same cycle and exits there, without
\* starting a second cycle.
C21_EndToEnd ==
    /\ [](FullScanDone =>
            /\ cache[0] = Data(E2EFeed) /\ cache[1] = Data(<<>>)
            /\ \A k \in PageIdx : k > 1 => cache[k] = NoFile
            /\ DOMAIN diff.missing = {"A", "B"}
            /\ \A b \in DOMAIN diff.missing : diff.missing[b] = <<1, 0>>
            /\ diff.extra = <<>>)
    /\ [][(pc = "cycle" /\ pc' = "execute" /\ FirstCycleOfTwo) => Len(plan') = 2]_vars
    /\ [][BothDownloaded =>
            (pc' = "exited" /\ RemainingMissing(catalog, actual) = 0)]_vars

C21_Witness ==
    /\ pc = "exited" /\ largs.once /\ largs.max_downloads = 0
    /\ Len(plan) = 2 /\ downloaded_this_cycle = 2 /\ idle_cycles = 0
    /\ Get(actual, "A") = 1 /\ Get(actual, "B") = 1
    /\ cache[0] = Data(E2EFeed) /\ cache[1] = Data(<<>>) /\ fetchComplete

\* ------------------------------------------- first-pass download planner
\* Suno_downloader.plan_first_pass_downloads, lines 269-282.  songs is the
\* list of ids that fetch_all_clips returns, sorted by (created_at, id);
\* seen counts the songs of each base met so far.
AssumedPresent_below(seen_expected, local_counts, base) ==
    Get(seen_expected, base) < Get(local_counts, base)
AssumedPresent(seen_expected, local_counts, base) ==
    Get(seen_expected, base) <= Get(local_counts, base)

RECURSIVE FirstPassFrom(_, _, _, _, _, _)
FirstPassFrom(cat, songs, i, seen_expected, local_counts, out) ==
    IF i > Len(songs) THEN out
    ELSE LET base == cat[songs[i]].base
             seen == [b \in DOMAIN seen_expected \cup {base} |->
                         Get(seen_expected, b) + (IF b = base THEN 1 ELSE 0)]
         IN IF AssumedPresent(seen, local_counts, base)
            THEN FirstPassFrom(cat, songs, i + 1, seen, local_counts,
                               [out EXCEPT !.skipped_as_existing = @ + 1])
            ELSE FirstPassFrom(cat, songs, i + 1, seen, local_counts,
                               [out EXCEPT !.planned = Append(@, songs[i])])
plan_first_pass_downloads(cat, songs, local_counts) ==
    FirstPassFrom(cat, songs, 1, <<>>, local_counts, [planned |-> <<>>, skipped_as_existing |-> 0])

\* fetch_all_clips, line 265: the songs sorted by (created_at, id).
SortedSongs(cat) == SortClips(cat, DOMAIN cat)

SongLists ==
    UNION {[1..n -> [base : {"A", "B"}, created_at : 1..2]] : n \in 0..MaxLen}

InitFirstPass ==
    /\ catalog \in SongLists
    /\ actual \in Counters
    /\ hinted_bases = {} /\ fetchComplete = FALSE /\ largs = NoLoopArgs
    /\ failed_attempts = <<>> /\ savedState = <<>> /\ plan = <<>> /\ queue = <<>>
    /\ downloaded_this_cycle = 0 /\ idle_cycles = 0 /\ lastResult = NoResult
    /\ expected = <<>> /\ diff = NoDiff
    /\ pc = "first_pass" /\ args = NoArgs /\ page = 0 /\ clips = <<>> /\ complete = TRUE
    /\ stopReason = NoStop /\ syncStatus = "skipped" /\ shifted = 0
    /\ unique = <<>> /\ outcome = "none"
    /\ EnvIdle /\ StoreIdle /\ FetchIdle /\ FileIdle /\ NameIdle /\ PassIdle /\ SleepIdle

\* Suno_downloader.main, lines 373-383.
FirstPassPlan ==
    /\ pc = "first_pass" /\ pc' = "planned"
    /\ LET r == plan_first_pass_downloads(catalog, SortedSongs(catalog), actual)
       IN plan' = r.planned /\ skipped_as_existing' = r.skipped_as_existing
    /\ UNCHANGED <<envVars, args, page, clips, complete, stopReason, syncStatus, shifted, unique,
                   outcome, storeVars, fetchVars, diffVars, catalog, hinted_bases, fetchComplete,
                   largs, failed_attempts, savedState, queue, downloaded_this_cycle,
                   idle_cycles, lastResult, fileVars, nameVars, sleepVars>>

SpecFirstPass == InitFirstPass /\ [][FirstPassPlan]_vars

PlannedOfBase(b) == {i \in 1..Len(plan) : catalog[plan[i]].base = b}
IsSubsequenceFrom(t, s) ==
    \A i, j \in 1..Len(t) : i < j =>
        \E k, l \in 1..Len(s) : k < l /\ s[k] = t[i] /\ s[l] = t[j]

\* C31: for every base the first pass plans max(0, expected - local) songs,
\* they are the latest of the base in (created_at, id) order and keep that
\* order in the plan, the songs skipped number min(expected, local) summed
\* over the bases, and no song is planned of a base whose local count
\* reaches its expected count.
C31_FirstPass ==
    pc = "planned" =>
        LET exp == ExpectedOf(catalog)
            short == [b \in DOMAIN exp |-> Max(0, exp[b] - Get(actual, b))]
            have == [b \in DOMAIN exp |-> Min(exp[b], Get(actual, b))]
        IN /\ \A b \in DOMAIN exp :
                /\ Cardinality(PlannedOfBase(b)) = short[b]
                /\ LET cs == clips_by_base(catalog, b)
                   IN {plan[i] : i \in PlannedOfBase(b)} =
                          {cs[k] : k \in (have[b] + 1)..Len(cs)}
                /\ Get(actual, b) >= exp[b] => PlannedOfBase(b) = {}
           /\ Len(plan) = SumOver(short, DOMAIN short)
           /\ skipped_as_existing = SumOver(have, DOMAIN have)
           /\ IsSubsequenceFrom(plan, SortedSongs(catalog))
           /\ DOMAIN progress_missing(exp, actual) = {b \in DOMAIN exp : short[b] > 0}

C31_Witness ==
    /\ pc = "planned" /\ Len(catalog) = 3
    /\ \A id \in DOMAIN catalog : catalog[id].base = "A"
    /\ catalog[1].created_at = 2 /\ catalog[2].created_at = 1 /\ catalog[3].created_at = 1
    /\ Get(actual, "A") = 1 /\ plan = <<3, 1>> /\ skipped_as_existing = 1

\* ------------------------------------ the synchronizer, request by request
\* main's guard of the head sync and sync_cache_head's probe loop, one
\* fetch_live_page call per step.  page is the loop index, clips the
\* live_prefix, loaded the cached clips; nRequests counts the calls, fPage
\* and fState hold the page and the outcome of the last one.
InitProbe ==
    /\ feed \in SeqsUpTo(0..MaxId, MaxLen)
    /\ cache \in SyncDirs \cup {EmptyDir}
    /\ pageSize \in 1..MaxPageSize
    /\ pc = "sync"
    /\ args \in [refresh : BOOLEAN, head_sync_pages : 0..MaxArg, max_pages : {0}]
    /\ page = 0 /\ clips = <<>> /\ complete = TRUE /\ stopReason = NoStop
    /\ syncStatus = "skipped" /\ shifted = 0 /\ unique = <<>> /\ outcome = "none"
    /\ StoreIdle /\ FetchIdle /\ DiffIdle /\ LoopIdle /\ FileIdle /\ NameIdle /\ PassIdle /\ SleepIdle

\* progress_check lines 254-257 and 157-160.
ProbeStart ==
    /\ pc = "sync"
    /\ LET cached == load_cached_clips(cache)
       IN IF ~SyncRuns(args, cache)
          THEN /\ pc' = "synced"
               /\ syncStatus' = IF args.refresh THEN "skipped_refresh_mode"
                                ELSE IF args.head_sync_pages <= 0 THEN "disabled_by_flag"
                                ELSE "skipped"
               /\ UNCHANGED loaded
          ELSE IF cached.raised
          THEN pc' = "synced" /\ syncStatus' = "AttributeError" /\ UNCHANGED loaded
          ELSE IF cached.clips = <<>>
          THEN pc' = "synced" /\ syncStatus' = "empty_cache" /\ UNCHANGED loaded
          ELSE pc' = "probe" /\ loaded' = cached /\ UNCHANGED syncStatus
    /\ UNCHANGED <<envVars, args, page, clips, complete, stopReason, shifted, unique, outcome,
                   items, fetchVars, diffVars, loopVars, fileVars, nameVars, passVars, sleepVars>>

\* Lines 166-179: one iteration of the probe loop.
ProbeStep ==
    /\ pc = "probe" /\ page < args.head_sync_pages
    /\ \E fetched \in FetchResults :
          /\ nRequests' = nRequests + 1 /\ fPage' = page /\ fState' = fetched
          /\ IF fetched # "ok"
             THEN /\ pc' = "synced" /\ syncStatus' = "raised"
                  /\ UNCHANGED <<cache, page, clips, shifted>>
             ELSE LET batch == LivePage(feed, pageSize, page)
                      cached_ids == {clip_id(c) : c \in Range(loaded.clips)} \ {NoId}
                      r == ScanBatch(batch, cached_ids)
                      done == AnchorResult(cache, clips \o r.prefix, loaded.clips)
                  IN IF batch = <<>>
                     THEN /\ cache' = rewrite_cache_clips(cache, <<>>)
                          /\ pc' = "synced" /\ syncStatus' = "feed_empty"
                          /\ shifted' = Len(loaded.clips)
                          /\ UNCHANGED <<page, clips>>
                     ELSE IF r.anchor
                     THEN /\ cache' = done.dir
                          /\ pc' = "synced" /\ syncStatus' = done.status
                          /\ shifted' = done.shifted_clips
                          /\ clips' = clips \o r.prefix
                          /\ UNCHANGED page
                     ELSE /\ clips' = clips \o r.prefix
                          /\ page' = page + 1
                          /\ UNCHANGED <<cache, pc, syncStatus, shifted>>
    /\ UNCHANGED <<feed, pageSize, args, complete, stopReason, unique, outcome, storeVars,
                   fetcher, maxRetries, attempt, nSleeps, lastResp, diffVars, loopVars,
                   fileVars, nameVars, passVars, sleepVars>>

\* Lines 181-182: the probe window held no anchor.
ProbeEnd ==
    /\ pc = "probe" /\ page >= args.head_sync_pages
    /\ pc' = "synced" /\ syncStatus' = "no_overlap_refresh"
    /\ UNCHANGED <<envVars, args, page, clips, complete, stopReason, shifted, unique, outcome,
                   storeVars, fetchVars, diffVars, loopVars, fileVars, nameVars, passVars, sleepVars>>

NextProbe == ProbeStart \/ ProbeStep \/ ProbeEnd
SpecProbe == InitProbe /\ [][NextProbe]_vars

HasPageFile(dir) == \E k \in PageIdx : dir[k] # NoFile
HasAnchor(batch, cached_clips) ==
    \E i \in 1..Len(batch) : clip_id(batch[i]) \in IdsOf(cached_clips)
Requested == nRequests' = nRequests + 1

\* C32: the synchronizer makes a request only when page files exist,
\* refresh is off and the probe limit is positive; the n-th request is for
\* page n-1, below the probe limit, so the indexes ascend from 0 and none
\* is fetched twice; and a successful request whose page is empty or holds
\* a cached id is the last one.
C32_ProbeRequests ==
    /\ [](nRequests > 0 =>
            (~args.refresh /\ args.head_sync_pages > 0 /\ nRequests <= args.head_sync_pages))
    /\ [][nRequests' # nRequests =>
            /\ Requested /\ HasPageFile(cache) /\ pc = "probe"
            /\ fPage' = nRequests /\ fPage' < args.head_sync_pages
            /\ (fState' = "ok" /\ (LivePage(feed, pageSize, fPage') = <<>>
                                   \/ HasAnchor(LivePage(feed, pageSize, fPage'), loaded.clips)))
                  => pc' = "synced"
            /\ fState' # "ok" => pc' = "synced"]_vars

C32_Witness ==
    /\ pc = "synced" /\ syncStatus = "shifted" /\ nRequests = 2 /\ fPage = 1
    /\ args.head_sync_pages = 2 /\ pageSize = 1 /\ shifted = 1

\* ------------------------------------------------------- retry backoff
\* The except branch of the four retry loops: fetch_live_page
\* (progress_check), fetch_feed_page and download_song (Suno_downloader),
\* download_clip (targeted_update).  attempt counts the failed iterations of
\* the loop: fetch_live_page adds one in the except branch, the other three
\* at the top of the loop, before the request.
RECURSIVE Pow2(_)
Pow2(n) == IF n <= 0 THEN 1 ELSE 2 * Pow2(n - 1)

Backoff_from_two(max_backoff, attempt_, base) == Min(max_backoff, Pow2(attempt_) * base)
\* min(max_backoff, (2 ** (attempt - 1)) * base)
Backoff(max_backoff, attempt_, base) == Min(max_backoff, Pow2(attempt_ - 1) * base)

RetryLoops == {"fetch_live_page", "fetch_feed_page", "download_song", "download_clip"}
BudgetSpent(loop, max_retries, attempt_) ==
    max_retries # 0 /\ (IF loop = "download_clip" THEN attempt_ >= max_retries
                        ELSE attempt_ > max_retries)

InitBackoff ==
    /\ fetcher \in RetryLoops
    /\ maxRetries \in 0..MaxRetriesArg
    /\ sleepArgs \in [sleep : 0..MaxSleep, max_backoff : 0..MaxBackoff, jitter : 0..MaxJitter]
    /\ slept = NoSleep
    /\ fPage = 0 /\ attempt = 0 /\ nRequests = 0 /\ nSleeps = 0
    /\ fState = "running" /\ lastResp = NoResp
    /\ EnvIdle /\ RunIdle /\ StoreIdle /\ DiffIdle /\ LoopIdle /\ FileIdle /\ NameIdle /\ PassIdle

\* One iteration that ends in the except branch: the loop gives up, or
\* sleeps the backoff plus a draw from [0, jitter] and goes round again.
RetryableFailure ==
    /\ fState = "running" /\ nRequests < MaxRequests
    /\ nRequests' = nRequests + 1
    /\ attempt' = attempt + 1
    /\ IF BudgetSpent(fetcher, maxRetries, attempt')
       THEN fState' = "gave_up" /\ UNCHANGED <<nSleeps, slept>>
       ELSE \E u \in 0..sleepArgs.jitter :
               LET backoff == Backoff(sleepArgs.max_backoff, attempt', sleepArgs.sleep)
               IN /\ slept' = [backoff |-> backoff, total |-> backoff + u]
                  /\ nSleeps' = nSleeps + 1
                  /\ UNCHANGED fState
    /\ UNCHANGED <<envVars, runVars, storeVars, fetcher, maxRetries, fPage, lastResp, diffVars,
                   loopVars, fileVars, nameVars, passVars, sleepArgs>>

\* The loop returns: the request succeeded or met a status that is not
\* retried.
RetryLoopReturns ==
    /\ fState = "running" /\ nRequests < MaxRequests
    /\ nRequests' = nRequests + 1
    /\ fState' = "returned"
    /\ attempt' = IF fetcher = "fetch_live_page" THEN attempt ELSE attempt + 1
    /\ UNCHANGED <<envVars, runVars, storeVars, fetcher, maxRetries, fPage, nSleeps, lastResp,
                   diffVars, loopVars, fileVars, nameVars, passVars, sleepVars>>

NextBackoff == RetryableFailure \/ RetryLoopReturns
SpecBackoff == InitBackoff /\ [][NextBackoff]_vars

\* C33: the backoff of the n-th sleep of a retry loop is
\* min(maxBackoff, base * 2^(n-1)), so the first sleep is base; it never
\* exceeds maxBackoff and never falls from one sleep to the next; the total
\* sleep lies between the backoff and the backoff plus jitter.
C33_Backoff ==
    [][nSleeps' # nSleeps =>
         /\ nSleeps' = nSleeps + 1
         /\ slept'.backoff = Min(sleepArgs.max_backoff, sleepArgs.sleep * Pow2(nSleeps' - 1))
         /\ nSleeps' = 1 => slept'.backoff = Min(sleepArgs.max_backoff, sleepArgs.sleep)
         /\ slept'.backoff <= sleepArgs.max_backoff
         /\ slept'.backoff >= slept.backoff
         /\ slept'.total >= slept'.backoff
         /\ slept'.total <= slept'.backoff + sleepArgs.jitter]_vars

C33_Witness ==
    /\ fetcher = "download_clip" /\ maxRetries = 0 /\ nSleeps = 3
    /\ sleepArgs = [sleep |-> 2, max_backoff |-> 5, jitter |-> 1]
    /\ slept = [backoff |-> 5, total |-> 6]

\* ------------------------------------------ downloads and the feed fetcher
\* C34: a download that gives up after retryable failures has made as many
\* attempts as the feed fetchers make for the same --max-retries, which is
\* max_retries + 1 (C2).
C34_SameAttempts ==
    (dl.state = "retries" /\ dl.max_retries > 0) => dl.attempt = dl.max_retries + 1

====
